---- MODULE Spec2Model ----
(***************************************************************************)
(* Model of the MRPT reactive navigator: the navigator state machine       *)
(* (CAbstractNavigator), the waypoint sequencer (CWaypointsNavigator) and  *)
(* the command-issuing skeleton of the reactive tick                       *)
(* (CAbstractPTGBasedReactive::performNavigationStep).                     *)
(*                                                                         *)
(* Conventions.  The robot moves on a line: a pose is an integer x, a      *)
(* 2-D segment is a pair of integers.  Time is counted in units of 10 ms   *)
(* on one clock `now` that stands for the robot navigation time, the       *)
(* system time and the sensor timestamps.  Every public entry point is one *)
(* action; the code of an entry point is an operator from the navigator    *)
(* record to the navigator record, so that calls compose as in the source. *)
(* The record fields keep the names of the C++ members.  Three fields are  *)
(* history only: `calls` (the robot-interface calls made by the last entry *)
(* point), `exc` (the last entry point ended by throwing) and the h_*      *)
(* fields.  `threads` holds the two mutexes of the navigator and, for each *)
(* thread of the application, the entry point it is in and how far it got; *)
(* it changes only where the entry points are taken lock by lock.          *)
(***************************************************************************)
EXTENDS Integers, Sequences, FiniteSets, TLC

VARIABLES nav, now, threads

vars == <<nav, now, threads>>

-----------------------------------------------------------------------------
(* Bounds of the model *)

MaxPos == 1
MaxTime == 3
MaxWps == 2
MaxSeenReachable == 1
MaxRequests == 1

(* Program constants, in model units (10 ms, metres on the line) *)

MIN_TIME_BETWEEN_POSE_UPDATES == 2
PREVIOUS_POSES_MAX_AGE == 2000
WATCHDOG_MS == 1000
NEVER_UPDATED == -1000000000
INVALID_TIMESTAMP == 0
INVALID_NUM == -100000
DBL_MAX == 1000000
MAX_INFO_AGE == 50
DEFAULT_ALARM_TIMEOUT == 3000
nPTGs == 1

Pos == 0..MaxPos
TimeSteps == {1, 2}

IDLE == "IDLE"
NAVIGATING == "NAVIGATING"
SUSPENDED == "SUSPENDED"
NAV_ERROR == "NAV_ERROR"
TState == {IDLE, NAVIGATING, SUSPENDED, NAV_ERROR}

Abs(x) == IF x < 0 THEN -x ELSE x
Min2(a, b) == IF a < b THEN a ELSE b
Max2(a, b) == IF a < b THEN b ELSE a

(* TSegment2D::distance(point) on the line: 0 inside the segment, else the
   distance to the nearer end. *)
SegmentDistance(p1, p2, pt) ==
    IF Min2(p1, p2) <= pt /\ pt <= Max2(p1, p2)
    THEN 0
    ELSE Min2(Abs(pt - p1), Abs(pt - p2))

-----------------------------------------------------------------------------
(* Robot interface: every call is appended to the log of the entry point *)

(* h_watchdog: startWatchdog() was called and stopWatchdog() was not called
   since; h_watchdogMisuse: the watchdog was started while started, or
   stopped while not started; h_wpEvents: the indices reported by
   sendWaypointReachedEvent() since the waypoint sequence was requested *)
Call(s, name, arg) ==
    [s EXCEPT !.calls = Append(@, [ev |-> name, arg |-> arg]),
              !.h_cmdSent = @ \/ name = "changeSpeeds",
              !.h_watchdog = IF name = "startWatchdog" THEN TRUE
                             ELSE IF name = "stopWatchdog" THEN FALSE
                             ELSE @,
              !.h_watchdogMisuse =
                  \/ @
                  \/ name = "startWatchdog" /\ s.h_watchdog
                  \/ name = "stopWatchdog" /\ ~s.h_watchdog,
              !.h_wpEvents = IF name = "wpReached" THEN Append(@, arg) ELSE @]

Called(s, name) == \E i \in DOMAIN s.calls : s.calls[i].ev = name

CountCalls(s, name) == Cardinality({i \in DOMAIN s.calls : s.calls[i].ev = name})

EventNames == {"navStart", "navEnd", "navEndError", "wayBlocked",
               "wpReached", "newWpTarget"}

VelCmdNames == {"changeSpeeds", "changeSpeedsNOP"}

stop(s, isEmergencyStop) ==
    Call(s, IF isEmergencyStop THEN "stopEmergency" ELSE "stop", -1)

(* An assignment to m_navigationState; h_edges collects the changes of the
   navigation state made by the last entry point, and h_cmdSent tells that
   changeSpeeds() was called since the state last went from IDLE to
   NAVIGATING. *)
SetState(s, new) ==
    [s EXCEPT !.m_navigationState = new,
              !.h_edges = IF new = s.m_navigationState
                          THEN @
                          ELSE @ \cup {<<s.m_navigationState, new>>},
              !.h_cmdSent = IF s.m_navigationState = IDLE /\ new = NAVIGATING
                            THEN FALSE ELSE @]

-----------------------------------------------------------------------------
(* Default-constructed values *)

TNavigationParams(target, allowed, relative, intermediary) ==
    [target |-> target, targetAllowedDistance |-> allowed,
     targetIsRelative |-> relative,
     targetIsIntermediaryWaypoint |-> intermediary]

TRobotPoseVel == [pose |-> 0, vel |-> 0, timestamp |-> INVALID_TIMESTAMP]

TWaypointStatusSequence ==
    [waypoints |-> <<>>, waypoint_index_current_goal |-> -1,
     final_goal_reached |-> FALSE, last_robot_pose |-> INVALID_NUM]

TWaypointStatus(wp) ==
    [target |-> wp.target, allowed_distance |-> wp.allowed_distance,
     allow_skip |-> wp.allow_skip, reached |-> FALSE,
     counter_seen_reachable |-> 0]

TSentVelCmd_reset ==
    [ptg_index |-> -1, ptg_alpha_index |-> -1, tp_target_k |-> -1,
     tim_send_cmd_vel |-> INVALID_TIMESTAMP, poseVel |-> TRobotPoseVel,
     colfreedist_move_k |-> 0, speed_scale |-> [num |-> 1, den |-> 1]]

TSentVelCmd_isValid(c) == c.poseVel.timestamp # INVALID_TIMESTAMP

-----------------------------------------------------------------------------
(* CPose3DInterpolator: a map from timestamp to pose, kept as a sequence
   sorted by timestamp *)

PathInsert(path, t, p) ==
    SelectSeq(path, LAMBDA e : e.t < t) \o <<[t |-> t, pose |-> p]>>
        \o SelectSeq(path, LAMBDA e : e.t > t)

(* the history that is never purged *)
PurgeOld_keepingAll(path) == path

RECURSIVE PurgeOld(_)
PurgeOld(path) ==
    IF Len(path) > 1 /\ path[Len(path)].t - path[1].t > PREVIOUS_POSES_MAX_AGE
    THEN PurgeOld(Tail(path))
    ELSE path

-----------------------------------------------------------------------------
(* CAbstractNavigator *)

(* cancel() that also reports the end of the navigation *)
CAbstractNavigator_cancel_reporting(s) ==
    Call(stop([SetState(s, IDLE) EXCEPT !.m_lastNavTargetReached = FALSE], FALSE),
         "navEnd", -1)

CAbstractNavigator_cancel(s) ==
    stop([SetState(s, IDLE) EXCEPT !.m_lastNavTargetReached = FALSE], FALSE)

resume(s) ==
    IF s.m_navigationState = SUSPENDED
    THEN SetState(s, NAVIGATING)
    ELSE s

suspend(s) ==
    IF s.m_navigationState = NAVIGATING
    THEN SetState(s, SUSPENDED)
    ELSE s

resetNavError(s) ==
    IF s.m_navigationState = NAV_ERROR
    THEN SetState(s, IDLE)
    ELSE s

doEmergencyStop(s) ==
    SetState(stop(s, TRUE), NAV_ERROR)

(* a failed pose read that only throws *)
updateCurrentPoseAndSpeeds_onlyThrowing(s, t, rd) ==
    IF /\ s.m_last_curPoseVelUpdate_robot_time >= 0
       /\ t - s.m_last_curPoseVelUpdate_robot_time < MIN_TIME_BETWEEN_POSE_UPDATES
    THEN s
    ELSE LET q == Call(s, "getCurrentPoseAndSpeeds", -1) IN
         IF ~rd.ok
         THEN [q EXCEPT !.exc = TRUE, !.h_poseReadFailed = TRUE]
         ELSE [q EXCEPT
                 !.m_curPoseVel = [pose |-> rd.pose, vel |-> rd.vel,
                                   timestamp |-> t],
                 !.m_last_curPoseVelUpdate_robot_time = t,
                 !.m_latestPoses = PurgeOld(PathInsert(@, t, rd.pose))]

(* the robot queried at every call, however recent the last read *)
updateCurrentPoseAndSpeeds_alwaysReading(s, t, rd) ==
    LET q == Call(s, "getCurrentPoseAndSpeeds", -1) IN
    IF ~rd.ok
    THEN [stop(SetState(q, NAV_ERROR), TRUE) EXCEPT
            !.exc = TRUE, !.h_poseReadFailed = TRUE]
    ELSE [q EXCEPT
            !.m_curPoseVel = [pose |-> rd.pose, vel |-> rd.vel,
                              timestamp |-> t],
            !.m_last_curPoseVelUpdate_robot_time = t,
            !.m_latestPoses = PurgeOld(PathInsert(@, t, rd.pose))]

(* rd = [ok, pose, vel]: what getCurrentPoseAndSpeeds() answers if it is called *)
updateCurrentPoseAndSpeeds(s, t, rd) ==
    IF /\ s.m_last_curPoseVelUpdate_robot_time >= 0
       /\ t - s.m_last_curPoseVelUpdate_robot_time < MIN_TIME_BETWEEN_POSE_UPDATES
    THEN s
    ELSE LET q == Call(s, "getCurrentPoseAndSpeeds", -1) IN
         IF ~rd.ok
         THEN [stop(SetState(q, NAV_ERROR), TRUE) EXCEPT
                 !.exc = TRUE, !.h_poseReadFailed = TRUE]
         ELSE [q EXCEPT
                 !.m_curPoseVel = [pose |-> rd.pose, vel |-> rd.vel,
                                   timestamp |-> t],
                 !.m_last_curPoseVelUpdate_robot_time = t,
                 !.m_latestPoses = PurgeOld(PathInsert(@, t, rd.pose))]

(* A pose (x, y, phi), phi in quarter turns, is the integer
   x + PoseBase * y + PoseBase^2 * phi; the poses of the robot on the line
   are the abscissas x, that is (x, 0, 0). *)
PoseBase == 100

TPose2D(x, y, phi) == x + PoseBase * y + PoseBase * PoseBase * phi

PoseX(p) == ((p + PoseBase \div 2) % PoseBase) - PoseBase \div 2

PoseY(p) ==
    ((((p - PoseX(p)) \div PoseBase) + PoseBase \div 2) % PoseBase)
        - PoseBase \div 2

PosePhi(p) == (((p - PoseX(p)) \div PoseBase) - PoseY(p)) \div PoseBase

QuarterCos(phi) == CASE phi % 4 = 0 -> 1 [] phi % 4 = 2 -> -1 [] OTHER -> 0

QuarterSin(phi) == CASE phi % 4 = 1 -> 1 [] phi % 4 = 3 -> -1 [] OTHER -> 0

(* the sum of the coordinates, without the rotation of B *)
composeFrom_translating(A, B) ==
    TPose2D(PoseX(A) + PoseX(B), PoseY(A) + PoseY(B), PosePhi(A) + PosePhi(B))

(* CPose2D::composeFrom: the pose B, given in the frame of A *)
composeFrom(A, B) ==
    TPose2D(PoseX(A) + PoseX(B) * QuarterCos(PosePhi(A))
                     - PoseY(B) * QuarterSin(PosePhi(A)),
            PoseY(A) + PoseX(B) * QuarterSin(PosePhi(A))
                     + PoseY(B) * QuarterCos(PosePhi(A)),
            PosePhi(A) + PosePhi(B))

(* CPose2D::operator-: the pose A seen from the pose B *)
inverseComposeFrom(A, B) ==
    TPose2D((PoseX(A) - PoseX(B)) * QuarterCos(PosePhi(B))
                + (PoseY(A) - PoseY(B)) * QuarterSin(PosePhi(B)),
            (PoseY(A) - PoseY(B)) * QuarterCos(PosePhi(B))
                - (PoseX(A) - PoseX(B)) * QuarterSin(PosePhi(B)),
            PosePhi(A) - PosePhi(B))

navigate(s, t, params, rd) ==
    LET s1 == [s EXCEPT !.m_navigationEndEventSent = FALSE,
                        !.m_lastNavTargetReached = FALSE,
                        !.m_navigationParams = <<params>>,
                        !.h_navEnd = 0,
                        !.h_wayBlocked = 0]
        s2 == IF params.targetIsRelative
              THEN updateCurrentPoseAndSpeeds(s1, t, rd)
              ELSE s1
        s3 == IF params.targetIsRelative
              THEN [s2 EXCEPT !.m_navigationParams =
                      <<[params EXCEPT
                           !.target = composeFrom(s2.m_curPoseVel.pose,
                                                  params.target),
                           !.targetIsRelative = FALSE]>>]
              ELSE s2
    IN  IF s2.exc
        THEN s2
        ELSE [SetState(s3, NAVIGATING) EXCEPT
                        !.m_badNavAlarm_minDistTarget = DBL_MAX,
                        !.m_badNavAlarm_lastMinDistTime = t]

-----------------------------------------------------------------------------
(* CAbstractPTGBasedReactive: the tick of the reactive pipeline.
   Distances in TP-space are in hundredths of the reference distance,
   speeds and speed scales are exact fractions.  A direction is an angle in
   half sectors: sector k of a PTG covers the angles 2k and 2k+1.
   r = [senseOk, timoff_pose2sense, timoff_pose2VelCmd, ptg, nop, best,
   limits, stopCmd, sendOk] stands for the
   answers of the collaborators in this tick:
     senseOk  the obstacle sensing hook succeeded;
     ptg[i]   for PTG i: the target is in its domain and allowed
              (valid_TP), the sector of the target (target_k), the
              obstacles projected to TP-space (TP_Obstacles, in cm), the
              output of the holonomic method (desiredDirection,
              desiredSpeed in hundredths);
     nop      the same for the evaluation of the NOP candidate, with
              valid_pose (the pose at the time of the last command could be
              interpolated) and is_exact (the robot was located on the path
              of the last command, within the mismatch threshold);
     best     the index preferred by the multi-objective optimiser
              (-1: none, nPTGs: the NOP candidate);
     timoff_pose2sense, timoff_pose2VelCmd
              the time offsets of the delays model, from the pose to the
              obstacles and from the pose to the effect of the command;
     limits   the factor returned by cmdVel_limits(), in hundredths;
     stopCmd  the command generated from a non-zero speed is a stop command;
     sendOk   the result of changeSpeeds() / changeSpeedsNOP(). *)

maxTimeInVelCmdNOP == 2
supportVelCmdNOP == TRUE
getPathCount == 2
ref_distance == 400
NOP_SLOWDOWN_FLOOR == 90
DEFAULT_SECURE_DISTANCE_START == 5
DEFAULT_SECURE_DISTANCE_END == 20

RECURSIVE GCD(_, _)
GCD(a, b) == IF b = 0 THEN a ELSE GCD(b, a % b)

(* the fraction n/d in lowest terms, d > 0 *)
Rat(n, d) ==
    LET g == GCD(Abs(n), d)
    IN  [num |-> n \div g, den |-> d \div g]

RatMul(a, b) == Rat(a.num * b.num, a.den * b.den)

(* "speed = -0.01": the candidate is not feasible *)
INVALID_SPEED == Rat(-1, 100)

alpha2index(alpha) == alpha \div 2

index2alpha(k) == 2 * k + 1

TInfoPerPTG ==
    [valid_TP |-> FALSE, target_k |-> 0, target_alpha |-> 0,
     TP_Obstacles |-> <<>>]

TCandidateMovementPTG ==
    [PTG |-> -1, direction |-> 0, speed |-> INVALID_SPEED]

onStartNewNavigation(s) ==
    [Call(s, "onStartNewNavigation", -1)
        EXCEPT !.m_last_curPoseVelUpdate_robot_time = NEVER_UPDATED,
               !.m_lastSentVelCmd = TSentVelCmd_reset]

(* the continuation allowed whatever the target *)
can_do_nop_motion_ignoringTarget(s, t, target_changed) ==
    /\ TSentVelCmd_isValid(s.m_lastSentVelCmd)
    /\ supportVelCmdNOP
    /\ t - s.m_lastSentVelCmd.tim_send_cmd_vel < maxTimeInVelCmdNOP

can_do_nop_motion(s, t, target_changed) ==
    /\ TSentVelCmd_isValid(s.m_lastSentVelCmd)
    /\ ~target_changed
    /\ supportVelCmdNOP
    /\ t - s.m_lastSentVelCmd.tim_send_cmd_vel < maxTimeInVelCmdNOP

(* the ramp of the security distances applied to every free distance *)
SecurityScale(s, obsFreeNormalizedDistance) ==
    LET p == s.params_abstract_ptg_navigator
    IN  IF obsFreeNormalizedDistance < p.secure_distance_end
        THEN IF obsFreeNormalizedDistance <= p.secure_distance_start
             THEN Rat(0, 1)
             ELSE Rat(obsFreeNormalizedDistance - p.secure_distance_start,
                      p.secure_distance_end - p.secure_distance_start)
        ELSE Rat(1, 1)

(* the look-ahead without its floor of 0.90 *)
FreeDistanceAfterNOP_withoutFloor(s, obsFreeNormalizedDistance) ==
    IF supportVelCmdNOP
    THEN Min2(obsFreeNormalizedDistance,
              obsFreeNormalizedDistance - s.m_curPoseVel.vel * maxTimeInVelCmdNOP)
    ELSE obsFreeNormalizedDistance

(* the free distance taken as it is, whatever the speed of the robot *)
FreeDistanceAfterNOP_ignoringSpeed(s, obsFreeNormalizedDistance) ==
    obsFreeNormalizedDistance

(* the free distance after the look-ahead of the NOP iterations *)
FreeDistanceAfterNOP(s, obsFreeNormalizedDistance) ==
    IF supportVelCmdNOP
    THEN LET d == s.m_curPoseVel.vel * maxTimeInVelCmdNOP
         IN  Min2(obsFreeNormalizedDistance,
                  Max2(NOP_SLOWDOWN_FLOOR, obsFreeNormalizedDistance - d))
    ELSE obsFreeNormalizedDistance

(* TP-obstacles left in the units of the projection *)
NormalizeObstacles_unscaled(raw) == raw

(* TP-obstacles divided by the reference distance *)
NormalizeObstacles(raw) ==
    [i \in DOMAIN raw |-> (raw[i] * 100) \div ref_distance]

(* STEP4, the holonomic method and the security scaling of its speed *)
HolonomicMovement(s, indexPTG, ipf, a) ==
    LET kDirection == alpha2index(a.desiredDirection)
        obsFreeNormalizedDistance ==
            FreeDistanceAfterNOP(s, ipf.TP_Obstacles[kDirection + 1])
        velScale == SecurityScale(s, obsFreeNormalizedDistance)
    IN  [PTG |-> indexPTG, direction |-> a.desiredDirection,
         speed |-> RatMul(Rat(a.desiredSpeed, 100), velScale)]

(* the NOP case keeps the direction of the last command; the scores mark
   the candidate as not feasible when the robot cannot be located on the
   path of that command *)
ContinuationMovement(s, indexPTG, a) ==
    [PTG |-> indexPTG,
     direction |-> index2alpha(s.m_lastSentVelCmd.ptg_alpha_index),
     speed |-> IF a.is_exact THEN Rat(1, 1) ELSE INVALID_SPEED]

(* the log keeps the free distance that the ramp of a candidate is applied
   to, next to the TP-obstacle it comes from *)
LogFreeDistance(s, indexPTG, obstacle) ==
    Call(s, "velScale",
         [ptg |-> indexPTG, TP_Obstacle |-> obstacle,
          obsFreeNormalizedDistance |-> FreeDistanceAfterNOP(s, obstacle)])

(* slot: the entry of m_infoPerPTG that is filled.  The result is the
   navigator and the candidate. *)
build_movement_candidate(s, indexPTG, slot, a, this_is_PTG_continuation) ==
    IF ~a.valid_TP
    THEN [s |-> [s EXCEPT !.m_infoPerPTG[slot] =
                     [TInfoPerPTG EXCEPT !.valid_TP = FALSE]],
          cm |-> [TCandidateMovementPTG EXCEPT !.PTG = indexPTG]]
    ELSE LET ipf == [valid_TP |-> TRUE, target_k |-> a.target_k,
                     target_alpha |-> index2alpha(a.target_k),
                     TP_Obstacles |-> NormalizeObstacles(a.TP_Obstacles)]
             s1 == [s EXCEPT !.m_infoPerPTG[slot] = ipf]
         IN  IF this_is_PTG_continuation
             THEN [s |-> s1, cm |-> ContinuationMovement(s1, indexPTG, a)]
             ELSE [s |-> LogFreeDistance(
                              Call(s1, "holonomicNavigate",
                                   [ptg |-> indexPTG,
                                    desiredDirection |-> a.desiredDirection,
                                    desiredSpeed |-> a.desiredSpeed]),
                              indexPTG,
                              ipf.TP_Obstacles[alpha2index(a.desiredDirection) + 1]),
                   cm |-> HolonomicMovement(s1, indexPTG, ipf, a)]

(* candidate_movs[slot] = the candidate that was built *)
StoreCandidate(c, slot, b) ==
    [s |-> b.s, candidate_movs |-> [c.candidate_movs EXCEPT ![slot] = b.cm]]

(* Round #1: c = [s, candidate_movs] *)
RECURSIVE EvaluatePTGs(_, _, _)
EvaluatePTGs(c, indexPTG, r) ==
    IF indexPTG >= nPTGs
    THEN c
    ELSE EvaluatePTGs(
             StoreCandidate(c, indexPTG,
                            build_movement_candidate(c.s, indexPTG, indexPTG,
                                                     r.ptg[indexPTG], FALSE)),
             indexPTG + 1, r)

(* Round #2: the NOP candidate, entry nPTGs *)
EvaluateNOP(c, t, target_changed, r) ==
    IF can_do_nop_motion(c.s, t, target_changed)
    THEN IF r.nop.valid_pose
         THEN StoreCandidate(c, nPTGs,
                             build_movement_candidate(
                                 c.s, c.s.m_lastSentVelCmd.ptg_index, nPTGs,
                                 r.nop, TRUE))
         ELSE [c EXCEPT !.candidate_movs[nPTGs].speed = INVALID_SPEED]
    ELSE c

(* the optimiser that takes the NOP candidate whatever its speed *)
decide_keepingInvalid(candidate_movs, r) ==
    IF r.best >= 0 /\ r.best < nPTGs /\ candidate_movs[r.best].speed.num < 0
    THEN -1
    ELSE r.best

(* The optimiser discards the candidates with a negative speed. *)
decide(candidate_movs, r) ==
    IF r.best >= 0 /\ candidate_movs[r.best].speed.num < 0
    THEN -1
    ELSE r.best

(* the velocity command of a movement and its speed scale *)
generate_vel_cmd(in_movement, r) ==
    IF in_movement.speed.num = 0
    THEN [new_vel_cmd |-> [ptg |-> in_movement.PTG, k |-> -1,
                           scale |-> Rat(0, 1), isStopCmd |-> TRUE],
          cmdvel_speed_scale |-> Rat(1, 1)]
    ELSE LET ratio == RatMul(in_movement.speed, Rat(r.limits, 100))
         IN  [new_vel_cmd |-> [ptg |-> in_movement.PTG,
                               k |-> alpha2index(in_movement.direction),
                               scale |-> ratio, isStopCmd |-> r.stopCmd],
              cmdvel_speed_scale |-> ratio]

(* the record that takes the index of the direction for that of the target *)
SaveLastSentCmd_directionAsTarget(s, t, best_ptg_idx, selectedHolonomicMovement, cmd_vel_speed_ratio) ==
    LET ptg_alpha_index == alpha2index(selectedHolonomicMovement.direction)
    IN  [s EXCEPT !.m_lastSentVelCmd =
            [speed_scale |-> cmd_vel_speed_ratio,
             ptg_index |-> best_ptg_idx,
             ptg_alpha_index |-> ptg_alpha_index,
             colfreedist_move_k |->
                 s.m_infoPerPTG[best_ptg_idx].TP_Obstacles[ptg_alpha_index + 1],
             tp_target_k |-> ptg_alpha_index,
             poseVel |-> s.m_curPoseVel,
             tim_send_cmd_vel |-> t]]

(* the record of the command that was sent *)
SaveLastSentCmd(s, t, best_ptg_idx, selectedHolonomicMovement, cmd_vel_speed_ratio) ==
    LET ptg_alpha_index == alpha2index(selectedHolonomicMovement.direction)
    IN  [s EXCEPT !.m_lastSentVelCmd =
            [speed_scale |-> cmd_vel_speed_ratio,
             ptg_index |-> best_ptg_idx,
             ptg_alpha_index |-> ptg_alpha_index,
             colfreedist_move_k |->
                 s.m_infoPerPTG[best_ptg_idx].TP_Obstacles[ptg_alpha_index + 1],
             tp_target_k |->
                 alpha2index(s.m_infoPerPTG[best_ptg_idx].target_alpha),
             poseVel |-> s.m_curPoseVel,
             tim_send_cmd_vel |-> t]]

(* the continuation recorded as a command sent at the time of the tick *)
SendMovementCommand_refreshingOnNOP(s, t, best_ptg_idx, candidate_movs, r) ==
    IF best_ptg_idx = nPTGs
    THEN LET q == [Call(s, "changeSpeedsNOP", [ok |-> r.sendOk])
                      EXCEPT !.m_lastSentVelCmd.tim_send_cmd_vel = t]
         IN  IF r.sendOk THEN q ELSE doEmergencyStop(q)
    ELSE IF best_ptg_idx < 0
         THEN [stop(s, TRUE) EXCEPT !.m_lastSentVelCmd = TSentVelCmd_reset]
         ELSE LET g == generate_vel_cmd(candidate_movs[best_ptg_idx], r) IN
              IF g.new_vel_cmd.isStopCmd
              THEN [stop(s, TRUE) EXCEPT !.m_lastSentVelCmd = TSentVelCmd_reset]
              ELSE LET q == Call(s, "changeSpeeds",
                                 [cmd |-> g.new_vel_cmd, ok |-> r.sendOk])
                   IN  IF ~r.sendOk
                       THEN doEmergencyStop(q)
                       ELSE SaveLastSentCmd(q, t, best_ptg_idx,
                                            candidate_movs[best_ptg_idx],
                                            g.cmdvel_speed_scale)

(* the command recorded as sent whatever changeSpeeds() returned *)
SendMovementCommand_savingAfterFailure(s, t, best_ptg_idx, candidate_movs, r) ==
    IF best_ptg_idx = nPTGs
    THEN LET q == Call(s, "changeSpeedsNOP", [ok |-> r.sendOk]) IN
         IF r.sendOk THEN q ELSE doEmergencyStop(q)
    ELSE IF best_ptg_idx < 0
         THEN [stop(s, TRUE) EXCEPT !.m_lastSentVelCmd = TSentVelCmd_reset]
         ELSE LET g == generate_vel_cmd(candidate_movs[best_ptg_idx], r)
                  q == SaveLastSentCmd(
                           Call(s, "changeSpeeds",
                                [cmd |-> g.new_vel_cmd, ok |-> r.sendOk]),
                           t, best_ptg_idx, candidate_movs[best_ptg_idx],
                           g.cmdvel_speed_scale)
              IN  IF g.new_vel_cmd.isStopCmd
                  THEN [stop(s, TRUE) EXCEPT !.m_lastSentVelCmd = TSentVelCmd_reset]
                  ELSE IF ~r.sendOk THEN doEmergencyStop(q) ELSE q

(* the record of the last command kept when the robot is stopped *)
SendMovementCommand_keepingRecordOnStop(s, t, best_ptg_idx, candidate_movs, r) ==
    IF best_ptg_idx = nPTGs
    THEN LET q == Call(s, "changeSpeedsNOP", [ok |-> r.sendOk]) IN
         IF r.sendOk THEN q ELSE doEmergencyStop(q)
    ELSE IF best_ptg_idx < 0
         THEN stop(s, TRUE)
         ELSE LET g == generate_vel_cmd(candidate_movs[best_ptg_idx], r) IN
              IF g.new_vel_cmd.isStopCmd
              THEN stop(s, TRUE)
              ELSE LET q == Call(s, "changeSpeeds",
                                 [cmd |-> g.new_vel_cmd, ok |-> r.sendOk])
                   IN  IF ~r.sendOk
                       THEN doEmergencyStop(q)
                       ELSE SaveLastSentCmd(q, t, best_ptg_idx,
                                            candidate_movs[best_ptg_idx],
                                            g.cmdvel_speed_scale)

SendMovementCommand(s, t, best_ptg_idx, candidate_movs, r) ==
    IF best_ptg_idx = nPTGs
    THEN LET q == Call(s, "changeSpeedsNOP", [ok |-> r.sendOk]) IN
         IF r.sendOk THEN q ELSE doEmergencyStop(q)
    ELSE IF best_ptg_idx < 0
         THEN [stop(s, TRUE) EXCEPT !.m_lastSentVelCmd = TSentVelCmd_reset]
         ELSE LET g == generate_vel_cmd(candidate_movs[best_ptg_idx], r) IN
              IF g.new_vel_cmd.isStopCmd
              THEN [stop(s, TRUE) EXCEPT !.m_lastSentVelCmd = TSentVelCmd_reset]
              ELSE LET q == Call(s, "changeSpeeds",
                                 [cmd |-> g.new_vel_cmd, ok |-> r.sendOk])
                   IN  IF ~r.sendOk
                       THEN doEmergencyStop(q)
                       ELSE SaveLastSentCmd(q, t, best_ptg_idx,
                                            candidate_movs[best_ptg_idx],
                                            g.cmdvel_speed_scale)

(* STEP6 and STEP7: the optimiser and the command of its choice *)
DecideAndSend(c, t, r) ==
    LET best_ptg_idx == decide(c.candidate_movs, r)
    IN  SendMovementCommand(
            Call(c.s, "decide",
                 [best |-> best_ptg_idx,
                  speed |-> IF best_ptg_idx >= 0
                            THEN c.candidate_movs[best_ptg_idx].speed
                            ELSE Rat(0, 1),
                  candidate_movs |-> c.candidate_movs]),
            t, best_ptg_idx, c.candidate_movs, r)

robotPoseExtrapolateIncrement(globalVel, time_offset) ==
    TPose2D(globalVel * time_offset, 0, 0)

(* the relative poses extrapolated whatever use_delays_model says *)
RelativePoses_alwaysExtrapolating(s, r) ==
    [relPoseSense |->
         robotPoseExtrapolateIncrement(s.m_curPoseVel.vel, r.timoff_pose2sense),
     relPoseVelCmd |->
         robotPoseExtrapolateIncrement(s.m_curPoseVel.vel, r.timoff_pose2VelCmd)]

(* the poses of the robot at the time of the obstacles and at the time the
   command takes effect, relative to its pose *)
RelativePoses(s, r) ==
    IF s.params_abstract_ptg_navigator.use_delays_model
    THEN [relPoseSense |->
              robotPoseExtrapolateIncrement(s.m_curPoseVel.vel, r.timoff_pose2sense),
          relPoseVelCmd |->
              robotPoseExtrapolateIncrement(s.m_curPoseVel.vel, r.timoff_pose2VelCmd)]
    ELSE [relPoseSense |-> TPose2D(0, 0, 0), relPoseVelCmd |-> TPose2D(0, 0, 0)]

(* the target relative to the robot; the log keeps the relative poses it
   was computed with *)
ComputeRelTarget(s, r, rel) ==
    Call(s, "relTarget",
         [timoff_pose2sense |-> r.timoff_pose2sense,
          timoff_pose2VelCmd |-> r.timoff_pose2VelCmd,
          relPoseSense |-> rel.relPoseSense,
          relPoseVelCmd |-> rel.relPoseVelCmd,
          rel_pose_PTG_origin_wrt_sense |->
              inverseComposeFrom(rel.relPoseVelCmd, rel.relPoseSense),
          relTarget |->
              inverseComposeFrom(s.m_navigationParams[1].target,
                                 composeFrom(s.m_curPoseVel.pose,
                                             rel.relPoseVelCmd))])

performNavigationStep(s, t, r) ==
    IF ~s.m_init_done
    THEN [s EXCEPT !.exc = TRUE]
    ELSE LET target == s.m_navigationParams[1].target
             target_changed_since_last_iteration == target # s.m_lastTarget
             s1 == [s EXCEPT !.m_lastTarget = target]
         IN  IF ~r.senseOk
             THEN doEmergencyStop(Call(s1, "senseObstacles", [ok |-> FALSE]))
             ELSE DecideAndSend(
                      EvaluateNOP(
                          EvaluatePTGs(
                              [s |-> [ComputeRelTarget(
                                          Call(s1, "senseObstacles", [ok |-> TRUE]),
                                          r, RelativePoses(s1, r))
                                        EXCEPT !.m_infoPerPTG =
                                                   [i \in 0..nPTGs |-> TInfoPerPTG],
                                               !.m_infoPerPTG_timestamp = t],
                               candidate_movs |->
                                   [i \in 0..nPTGs |-> TCandidateMovementPTG]],
                              0, r),
                          t, target_changed_since_last_iteration, r),
                      t, r)

-----------------------------------------------------------------------------
(* CAbstractNavigator::navigationStep *)

(* the event sent without recording that it was sent *)
SendNavigationEndEvent_unrecorded(s) ==
    [Call(s, "navEnd", -1) EXCEPT !.h_navEnd = Min2(@ + 1, 2)]

SendNavigationEndEvent(s) ==
    [Call(s, "navEnd", -1) EXCEPT !.m_navigationEndEventSent = TRUE,
                                  !.h_navEnd = Min2(@ + 1, 2)]

(* arrival that reports the end of the navigation for every target *)
TargetReached_reportingAll(s) ==
    LET p  == s.m_navigationParams[1]
        s1 == [s EXCEPT !.m_lastNavTargetReached = TRUE]
        s2 == IF ~p.targetIsIntermediaryWaypoint THEN stop(s1, FALSE) ELSE s1
        s3 == SetState(s2, IDLE)
    IN  IF ~s3.m_navigationEndEventSent
        THEN SendNavigationEndEvent(s3)
        ELSE s3

TargetReached(s) ==
    LET p  == s.m_navigationParams[1]
        s1 == [s EXCEPT !.m_lastNavTargetReached = TRUE]
        s2 == IF ~p.targetIsIntermediaryWaypoint THEN stop(s1, FALSE) ELSE s1
        s3 == SetState(s2, IDLE)
    IN  IF ~p.targetIsIntermediaryWaypoint /\ ~s3.m_navigationEndEventSent
        THEN SendNavigationEndEvent(s3)
        ELSE s3

(* the alarm raised without leaving NAVIGATING *)
WaySeemsBlocked_stillNavigating(s, t) ==
    [Call(s, "wayBlocked", t - s.m_badNavAlarm_lastMinDistTime)
        EXCEPT !.h_wayBlocked = Min2(@ + 1, 2)]

WaySeemsBlocked(s, t) ==
    [Call(SetState(s, NAV_ERROR), "wayBlocked",
          t - s.m_badNavAlarm_lastMinDistTime)
        EXCEPT !.h_wayBlocked = Min2(@ + 1, 2)]

(* From "Have we reached the target location?" to the end of case NAVIGATING *)
(* the check of the target without the `break' that follows the arrival *)
CheckTargetAndStep_steppingAfterArrival(s, t, r) ==
    LET p == s.m_navigationParams[1]
        n == Len(s.m_latestPoses)
        prevPose == IF n > 1 THEN s.m_latestPoses[n - 1].pose
                             ELSE s.m_latestPoses[n].pose
        targetDist == SegmentDistance(s.m_curPoseVel.pose, prevPose, p.target)
        s1 == [s EXCEPT !.h_targetDist = targetDist]
    IN  IF targetDist < p.targetAllowedDistance
        THEN performNavigationStep(TargetReached(s1), t, r)
        ELSE performNavigationStep(s1, t, r)

CheckTargetAndStep(s, t, r) ==
    LET p == s.m_navigationParams[1]
        n == Len(s.m_latestPoses)
        prevPose == IF n > 1 THEN s.m_latestPoses[n - 1].pose
                             ELSE s.m_latestPoses[n].pose
        targetDist == SegmentDistance(s.m_curPoseVel.pose, prevPose, p.target)
        s1 == [s EXCEPT !.h_targetDist = targetDist]
        s2 == IF /\ ~p.targetIsIntermediaryWaypoint
                 /\ ~s1.m_navigationEndEventSent
                 /\ targetDist < s1.params_abstract_navigator.dist_to_target_for_sending_event
              THEN SendNavigationEndEvent(s1)
              ELSE s1
    IN  IF targetDist < p.targetAllowedDistance
        THEN TargetReached(s2)
        ELSE IF targetDist < s2.m_badNavAlarm_minDistTarget
             THEN performNavigationStep(
                     [s2 EXCEPT !.m_badNavAlarm_minDistTarget = targetDist,
                                !.m_badNavAlarm_lastMinDistTime = t], t, r)
             ELSE IF t - s2.m_badNavAlarm_lastMinDistTime >
                        s2.params_abstract_navigator.alarm_seems_not_approaching_target_timeout
                  THEN WaySeemsBlocked(s2, t)
                  ELSE performNavigationStep(s2, t, r)

CaseNavigating(s, t, rd, r) ==
    LET s1 == IF s.m_lastNavigationState # NAVIGATING
              THEN onStartNewNavigation(
                      [Call(s, "startWatchdog", WATCHDOG_MS)
                          EXCEPT !.m_latestPoses = <<>>])
              ELSE s
        s2 == IF s.m_lastNavigationState = IDLE
              THEN Call(s1, "navStart", -1)
              ELSE s1
        s3 == updateCurrentPoseAndSpeeds(s2, t, rd)
    IN  IF s3.exc \/ s3.m_latestPoses = <<>>
        THEN [s3 EXCEPT !.exc = FALSE]
        ELSE [CheckTargetAndStep(s3, t, r) EXCEPT !.exc = FALSE]

(* the cases IDLE and SUSPENDED without the stop of the watchdog *)
CaseIdleSuspended_keepingWatchdog(s) == s

CaseIdleSuspended(s) ==
    IF s.m_lastNavigationState = NAVIGATING
    THEN Call(s, "stopWatchdog", -1)
    ELSE s

CaseNavError(s) ==
    LET s1 == IF s.m_lastNavigationState = NAVIGATING
                 /\ s.m_navigationState = NAV_ERROR
              THEN Call(s, "navEndError", -1)
              ELSE s
    IN  IF s.m_lastNavigationState = NAVIGATING
        THEN Call(stop(s1, FALSE), "stopWatchdog", -1)
        ELSE s1

CAbstractNavigator_navigationStep(s, t, rd, r) ==
    LET prevState == s.m_navigationState
        s0 == s
        s1 == CASE prevState \in {IDLE, SUSPENDED} -> CaseIdleSuspended(s0)
                [] prevState = NAV_ERROR -> CaseNavError(s0)
                [] prevState = NAVIGATING -> CaseNavigating(s0, t, rd, r)
    IN  [s1 EXCEPT !.m_lastNavigationState = prevState]

-----------------------------------------------------------------------------
(* CWaypointsNavigator *)

(* The request is copied waypoint by waypoint; an empty list throws. *)
(* TWaypoint::isValid() and the default-constructed entry that
   waypoints.resize(N) creates *)
TWaypoint_isValid(wp) ==
    wp.target # INVALID_NUM /\ wp.allowed_distance # INVALID_NUM

TWaypoint_default ==
    [target |-> INVALID_NUM, allowed_distance |-> INVALID_NUM, allow_skip |-> TRUE]

(* the number of waypoints copied before the loop meets one that is not
   valid: all of them if there is none *)
RECURSIVE CopiedWaypoints(_, _)
CopiedWaypoints(nav_request, i) ==
    IF i >= Len(nav_request) \/ ~TWaypoint_isValid(nav_request[i + 1])
    THEN i
    ELSE CopiedWaypoints(nav_request, i + 1)

(* h_rejected: the last request was a navigateWaypoints() that threw *)
navigateWaypoints(s, t, nav_request) ==
    LET fresh == TWaypointStatusSequence
        N == Len(nav_request)
        copied == CopiedWaypoints(nav_request, 0)
    IN  IF N = 0
        THEN [s EXCEPT !.m_waypoint_nav_status = fresh, !.exc = TRUE,
                       !.h_rejected = TRUE]
        ELSE IF copied < N
        THEN [s EXCEPT !.m_waypoint_nav_status =
                 [fresh EXCEPT
                    !.waypoints = [i \in 1..N |->
                                      IF i <= copied
                                      THEN TWaypointStatus(nav_request[i])
                                      ELSE TWaypointStatus(TWaypoint_default)]],
                       !.exc = TRUE, !.h_rejected = TRUE]
        ELSE [s EXCEPT !.m_waypoint_nav_status =
                 [fresh EXCEPT
                    !.waypoints = [i \in 1..N |-> TWaypointStatus(nav_request[i])],
                    !.waypoint_index_current_goal = -1]]

(* cancel() that leaves the waypoint sequence in place *)
CWaypointsNavigator_cancel_keepingSequence(s) ==
    CAbstractNavigator_cancel(s)

CWaypointsNavigator_cancel(s) ==
    CAbstractNavigator_cancel(
        [s EXCEPT !.m_waypoint_nav_status = TWaypointStatusSequence])

(* the query that reports a free path to every point that some PTG has in
   its domain, whatever the obstacles *)
impl_waypoint_is_reachable_ignoringObstacles(s, t, wp) ==
    /\ Cardinality(DOMAIN s.m_infoPerPTG) >= nPTGs
    /\ s.m_infoPerPTG_timestamp # INVALID_TIMESTAMP
    /\ ~(t - s.m_infoPerPTG_timestamp > MAX_INFO_AGE)
    /\ \E i \in 0..(nPTGs - 1) :
          /\ Len(s.m_infoPerPTG[i].TP_Obstacles) = getPathCount
          /\ wp[i].is_into_domain

(* wp: for each PTG, what its inverse map answers for the waypoint in the
   frame of the robot: is_into_domain, the sector wp_k and the normalised
   distance wp_norm_d, in hundredths *)
impl_waypoint_is_reachable(s, t, wp) ==
    /\ Cardinality(DOMAIN s.m_infoPerPTG) >= nPTGs
    /\ s.m_infoPerPTG_timestamp # INVALID_TIMESTAMP
    /\ ~(t - s.m_infoPerPTG_timestamp > MAX_INFO_AGE)
    /\ \E i \in 0..(nPTGs - 1) :
          /\ Len(s.m_infoPerPTG[i].TP_Obstacles) = getPathCount
          /\ wp[i].is_into_domain
          /\ 100 * s.m_infoPerPTG[i].TP_Obstacles[wp[i].wp_k + 1]
                 > 101 * wp[i].wp_norm_d

(* The for loop of the look-ahead, from index idx on: the waypoints with
   their counters updated and the most advanced confirmed waypoint.
   reach[idx + 1]: the answers of the inverse maps for waypoint idx. *)
RECURSIVE ScanWaypoints(_, _, _, _, _, _)
ScanWaypoints(s, t, wpts, idx, most_advanced_wp, reach) ==
    IF idx >= Len(wpts)
    THEN [waypoints |-> wpts, most_advanced_wp |-> most_advanced_wp]
    ELSE LET wp == wpts[idx + 1]
             norm == Abs(wp.target - s.m_curPoseVel.pose)
             maxd == s.params_waypoints_navigator.max_distance_to_allow_skip_waypoint
         IN  IF maxd > 0 /\ norm > maxd
             THEN ScanWaypoints(s, t, wpts, idx + 1, most_advanced_wp, reach)
             ELSE LET is_reachable == impl_waypoint_is_reachable(s, t, reach[idx + 1])
                      cnt == IF is_reachable THEN wp.counter_seen_reachable + 1
                                             ELSE wp.counter_seen_reachable
                      w2 == [wpts EXCEPT ![idx + 1].counter_seen_reachable = cnt]
                      most == IF is_reachable /\ cnt >
                                   s.params_waypoints_navigator.min_timesteps_confirm_skip_waypoints
                              THEN idx
                              ELSE most_advanced_wp
                  IN  IF ~wp.allow_skip
                      THEN [waypoints |-> w2, most_advanced_wp |-> most]
                      ELSE ScanWaypoints(s, t, w2, idx + 1, most, reach)

SendWaypointReachedEvent(s, k) == Call(s, "wpReached", k)

(* waypoints k..upto-1 are marked reached, each with its event *)
RECURSIVE MarkSkipped(_, _, _)
MarkSkipped(s, k, upto) ==
    IF k >= upto
    THEN s
    ELSE MarkSkipped(
            SendWaypointReachedEvent(
                [s EXCEPT !.m_waypoint_nav_status.waypoints[k + 1].reached = TRUE], k),
            k + 1, upto)

(* the goal marked reached and reported, with the index left where it was *)
ReachCurrentGoal_keepingIndex(s, robot_move_seg) ==
    LET wps == s.m_waypoint_nav_status
        cur == wps.waypoint_index_current_goal
    IN  IF cur < 0
        THEN s
        ELSE LET dist2target == SegmentDistance(robot_move_seg[1], robot_move_seg[2],
                                                wps.waypoints[cur + 1].target)
             IN  IF dist2target < wps.waypoints[cur + 1].allowed_distance
                    \/ s.m_lastNavTargetReached
                 THEN LET s1 == SendWaypointReachedEvent(
                                   [s EXCEPT !.m_waypoint_nav_status.waypoints[cur + 1].reached = TRUE],
                                   cur)
                      IN  IF cur < Len(wps.waypoints) - 1
                          THEN s1
                          ELSE [s1 EXCEPT !.m_waypoint_nav_status.final_goal_reached = TRUE]
                 ELSE s

(* 1) default policy: go through the waypoints one by one *)
ReachCurrentGoal(s, robot_move_seg) ==
    LET wps == s.m_waypoint_nav_status
        cur == wps.waypoint_index_current_goal
    IN  IF cur < 0
        THEN s
        ELSE LET dist2target == SegmentDistance(robot_move_seg[1], robot_move_seg[2],
                                                wps.waypoints[cur + 1].target)
             IN  IF dist2target < wps.waypoints[cur + 1].allowed_distance
                    \/ s.m_lastNavTargetReached
                 THEN LET s1 == SendWaypointReachedEvent(
                                   [s EXCEPT !.m_waypoint_nav_status.waypoints[cur + 1].reached = TRUE],
                                   cur)
                      IN  IF cur < Len(wps.waypoints) - 1
                          THEN [s1 EXCEPT !.m_waypoint_nav_status.waypoint_index_current_goal = cur + 1]
                          ELSE [s1 EXCEPT !.m_waypoint_nav_status.final_goal_reached = TRUE]
                 ELSE s

(* the look-ahead that moves the goal without marking the waypoints it
   leaves behind *)
SkipLookAhead_leavingUnreached(s, t, reach) ==
    LET wps == s.m_waypoint_nav_status
        cur == wps.waypoint_index_current_goal
    IN  IF wps.final_goal_reached \/ cur < 0
        THEN s
        ELSE LET res == ScanWaypoints(s, t, wps.waypoints, cur, cur, reach)
             IN  [s EXCEPT !.m_waypoint_nav_status.waypoints = res.waypoints,
                           !.m_waypoint_nav_status.waypoint_index_current_goal =
                               res.most_advanced_wp]

(* the look-ahead that reports every waypoint before the new goal, from the
   first one on *)
SkipLookAhead_reportingFromFirst(s, t, reach) ==
    LET wps == s.m_waypoint_nav_status
        cur == wps.waypoint_index_current_goal
    IN  IF wps.final_goal_reached \/ cur < 0
        THEN s
        ELSE LET res == ScanWaypoints(s, t, wps.waypoints, cur, cur, reach)
                 s1 == [s EXCEPT !.m_waypoint_nav_status.waypoints = res.waypoints]
             IN  IF res.most_advanced_wp >= 0
                 THEN MarkSkipped(
                         [s1 EXCEPT !.m_waypoint_nav_status.waypoint_index_current_goal =
                                        res.most_advanced_wp],
                         0, res.most_advanced_wp)
                 ELSE s1

(* 2) skip look-ahead *)
SkipLookAhead(s, t, reach) ==
    LET wps == s.m_waypoint_nav_status
        cur == wps.waypoint_index_current_goal
    IN  IF wps.final_goal_reached \/ cur < 0
        THEN s
        ELSE LET res == ScanWaypoints(s, t, wps.waypoints, cur, cur, reach)
                 s1 == [s EXCEPT !.m_waypoint_nav_status.waypoints = res.waypoints]
             IN  IF res.most_advanced_wp >= 0
                 THEN MarkSkipped(
                         [s1 EXCEPT !.m_waypoint_nav_status.waypoint_index_current_goal =
                                        res.most_advanced_wp],
                         cur, res.most_advanced_wp)
                 ELSE s1

(* the navigation command for the waypoint that is the current goal *)
WaypointCommand(wps) ==
    LET cur == wps.waypoint_index_current_goal
        wp == wps.waypoints[cur + 1]
        is_final_wp == (cur + 1 = Len(wps.waypoints))
    IN  TNavigationParams(wp.target, wp.allowed_distance, FALSE, ~is_final_wp)

(* the request made in every tick that has a goal, changed or not *)
RequestNewTarget_wheneverGoalSet(s, t, prev_wp_index) ==
    LET wps == s.m_waypoint_nav_status
        cur == wps.waypoint_index_current_goal
    IN  IF cur >= 0
        THEN navigate(Call(Call(s, "newWpTarget", cur),
                           "navigate", WaypointCommand(wps)),
                      t, WaypointCommand(wps),
                      [ok |-> TRUE, pose |-> 0, vel |-> 0])
        ELSE s

(* 3) a new single-target navigation request if the goal changed *)
RequestNewTarget(s, t, prev_wp_index) ==
    LET wps == s.m_waypoint_nav_status
        cur == wps.waypoint_index_current_goal
    IN  IF cur >= 0 /\ prev_wp_index # cur
        THEN navigate(Call(Call(s, "newWpTarget", cur),
                           "navigate", WaypointCommand(wps)),
                      t, WaypointCommand(wps),
                      [ok |-> TRUE, pose |-> 0, vel |-> 0])
        ELSE s

WaypointsPart(s, t, rd, reach) ==
    IF s.m_waypoint_nav_status.waypoints = <<>>
       \/ s.m_waypoint_nav_status.final_goal_reached
    THEN s
    ELSE LET s0 == updateCurrentPoseAndSpeeds(s, t, rd) IN
         IF s0.exc
         THEN s0
         ELSE LET prev_wp_index == s0.m_waypoint_nav_status.waypoint_index_current_goal
                  p1 == s0.m_curPoseVel.pose
                  last == s0.m_waypoint_nav_status.last_robot_pose
                  robot_move_seg == <<p1, IF last = INVALID_NUM THEN p1 ELSE last>>
                  s1 == [s0 EXCEPT !.m_waypoint_nav_status.last_robot_pose = p1]
                  s2 == ReachCurrentGoal(s1, robot_move_seg)
                  s3 == SkipLookAhead(s2, t, reach)
                  s4 == IF s3.m_waypoint_nav_status.waypoint_index_current_goal < 0
                        THEN [s3 EXCEPT !.m_waypoint_nav_status.waypoint_index_current_goal = 0]
                        ELSE s3
              IN  RequestNewTarget(s4, t, prev_wp_index)

(* in = [pose, vel, failAt, reach, react]: the robot pose and speed of this
   tick, which pose read fails (0: none, 1: the one of the waypoint part, 2: the one of the
   state-machine part), the answers of the inverse maps for the waypoints,
   the reactive answers *)
CWaypointsNavigator_navigationStep(s, t, in) ==
    LET s1 == WaypointsPart(s, t, [ok |-> in.failAt # 1, pose |-> in.pose,
                                   vel |-> in.vel], in.reach)
    IN  IF s1.exc
        THEN s1
        ELSE CAbstractNavigator_navigationStep(
                 s1, t, [ok |-> in.failAt # 2, pose |-> in.pose, vel |-> in.vel],
                 in.react)

(* ok: the file names a registered motion decider and holonomic method;
   pp: the values it gives to the parameters of the reactive navigator, which
   are loaded first; pa, pw: the values it gives to the parameters of the
   parent classes *)
loadConfigFile(s, ok, pa, pw, pp) ==
    LET s1 == [s EXCEPT !.params_abstract_ptg_navigator = pp]
    IN  IF ok
        THEN [s1 EXCEPT !.params_waypoints_navigator = pw,
                        !.params_abstract_navigator = pa,
                        !.m_init_done = TRUE]
        ELSE [s1 EXCEPT !.exc = TRUE]

-----------------------------------------------------------------------------
(* The inputs of the entry points *)

(* absolute targets anywhere on the line, relative targets one step ahead *)
Targets ==
    {p \in [target : Pos, targetAllowedDistance : {1},
            targetIsRelative : BOOLEAN,
            targetIsIntermediaryWaypoint : BOOLEAN] :
        p.targetIsRelative => p.target = 1}

(* the waypoints of a request lie at 0, 1, ... along the line; allow_skip of
   the last one is never consulted by the look-ahead and is left TRUE *)
WaypointRequests ==
    {f \in UNION {[1..n -> BOOLEAN] : n \in 0..MaxWps} :
        Len(f) > 0 => f[Len(f)]}

WaypointsAlongLine(skips) ==
    [i \in DOMAIN skips |->
        [target |-> i - 1, allowed_distance |-> 1, allow_skip |-> skips[i]]]

PoseReads == [ok : BOOLEAN, pose : Pos, vel : {0}]

(* a PTG with the target straight ahead at full speed and no obstacle *)
FreeWay ==
    [valid_TP |-> TRUE, target_k |-> 0,
     TP_Obstacles |-> [i \in 1..getPathCount |-> ref_distance],
     desiredDirection |-> 1, desiredSpeed |-> 100]

FreeWayNOP ==
    [valid_pose |-> TRUE, is_exact |-> TRUE, valid_TP |-> TRUE, target_k |-> 0,
     TP_Obstacles |-> [i \in 1..getPathCount |-> ref_distance]]

(* one record for each distinguishable answer of the collaborators when the
   way is free and a new command is preferred to the continuation of the
   last one *)
ReactiveInputs ==
    {r \in [senseOk : BOOLEAN, timoff_pose2sense : {0}, timoff_pose2VelCmd : {0},
            ptg : {[i \in 0..(nPTGs - 1) |-> FreeWay]},
            nop : {FreeWayNOP}, best : -1..(nPTGs - 1), limits : {100},
            stopCmd : BOOLEAN, sendOk : BOOLEAN] :
        /\ ~r.senseOk => (r.best = -1 /\ ~r.stopCmd /\ r.sendOk)
        /\ r.best = -1 => (~r.stopCmd /\ r.sendOk)
        /\ r.stopCmd => r.sendOk}

NoAnswer ==
    [senseOk |-> TRUE, timoff_pose2sense |-> 0, timoff_pose2VelCmd |-> 0,
     ptg |-> [i \in 0..(nPTGs - 1) |-> FreeWay],
     nop |-> FreeWayNOP, best |-> -1, limits |-> 100, stopCmd |-> FALSE,
     sendOk |-> TRUE]

(* a waypoint at the origin of the TP-space of every PTG, and one out of
   the domain of every PTG *)
WpAtOrigin ==
    [i \in 0..(nPTGs - 1) |->
        [is_into_domain |-> TRUE, wp_k |-> 0, wp_norm_d |-> 0]]

WpOutOfDomain ==
    [i \in 0..(nPTGs - 1) |->
        [is_into_domain |-> FALSE, wp_k |-> 0, wp_norm_d |-> 0]]

(* the answers that matter to a tick from state s: one of the two for each
   of the waypoints there are *)
ReachInputs(s) ==
    [1..Len(s.m_waypoint_nav_status.waypoints) -> {WpAtOrigin, WpOutOfDomain}]

TickInput(pose, vel, failAt, reach, react) ==
    [pose |-> pose, vel |-> vel, failAt |-> failAt, reach |-> reach,
     react |-> react]

CountersBounded(s) ==
    \A i \in DOMAIN s.m_waypoint_nav_status.waypoints :
        s.m_waypoint_nav_status.waypoints[i].counter_seen_reachable <= MaxSeenReachable

-----------------------------------------------------------------------------
(* The parameter values of a configuration file *)

AbstractNavigatorParams ==
    [dist_to_target_for_sending_event : {0, 2},
     alarm_seems_not_approaching_target_timeout : {1}]

WaypointsNavigatorParams ==
    [max_distance_to_allow_skip_waypoint : {-1},
     min_timesteps_confirm_skip_waypoints : {0}]

AbstractPTGNavigatorParams ==
    [secure_distance_start : {DEFAULT_SECURE_DISTANCE_START},
     secure_distance_end : {DEFAULT_SECURE_DISTANCE_END},
     use_delays_model : {FALSE}]

-----------------------------------------------------------------------------
(* The state after construction *)

TAbstractNavigatorParams ==
    [dist_to_target_for_sending_event |-> 0,
     alarm_seems_not_approaching_target_timeout |-> DEFAULT_ALARM_TIMEOUT]

TWaypointsNavigatorParams ==
    [max_distance_to_allow_skip_waypoint |-> -1,
     min_timesteps_confirm_skip_waypoints |-> 1]

TAbstractPTGNavigatorParams ==
    [secure_distance_start |-> DEFAULT_SECURE_DISTANCE_START,
     secure_distance_end |-> DEFAULT_SECURE_DISTANCE_END,
     use_delays_model |-> FALSE]

Constructed(pa, pw) ==
    [m_lastNavigationState |-> IDLE,
     m_navigationEndEventSent |-> FALSE,
     m_navigationState |-> IDLE,
     m_navigationParams |-> <<>>,
     m_lastNavTargetReached |-> FALSE,
     m_curPoseVel |-> TRobotPoseVel,
     m_last_curPoseVelUpdate_robot_time |-> NEVER_UPDATED,
     m_latestPoses |-> <<>>,
     m_badNavAlarm_minDistTarget |-> 0,
     m_badNavAlarm_lastMinDistTime |-> INVALID_TIMESTAMP,
     params_abstract_navigator |-> pa,
     m_waypoint_nav_status |-> TWaypointStatusSequence,
     params_waypoints_navigator |-> pw,
     params_abstract_ptg_navigator |-> TAbstractPTGNavigatorParams,
     m_infoPerPTG |-> <<>>,
     m_init_done |-> FALSE,
     m_lastSentVelCmd |-> TSentVelCmd_reset,
     m_lastTarget |-> 0,
     m_infoPerPTG_timestamp |-> INVALID_TIMESTAMP,
     calls |-> <<>>,
     exc |-> FALSE,
     h_requests |-> 0,
     h_cancelled |-> FALSE,
     h_cancelsInARow |-> 0,
     h_suspended |-> FALSE,
     h_resumed |-> FALSE,
     h_edges |-> {},
     h_tickStart |-> "none",
     h_navEnd |-> 0,
     h_wayBlocked |-> 0,
     h_targetDist |-> -1,
     h_poseReadFailed |-> FALSE,
     h_ticks |-> 0,
     h_alwaysReachable |-> TRUE,
     h_cmdSent |-> FALSE,
     h_watchdog |-> FALSE,
     h_watchdogMisuse |-> FALSE,
     h_rejected |-> FALSE,
     h_wpEvents |-> <<>>,
     h_request |-> TNavigationParams(0, 0, FALSE, FALSE)]

(* std::recursive_mutex: the thread that owns it (0: none) and how many
   times it has locked it *)
recursive_mutex == [owner |-> 0, count |-> 0]

Threads == {1, 2}

(* no call is in progress and the two mutexes of the navigator are free *)
NoCallInProgress ==
    [pc |-> [th \in Threads |-> "idle"],
     params |-> [th \in Threads |-> TNavigationParams(0, 0, FALSE, FALSE)],
     m_nav_cs |-> recursive_mutex,
     m_nav_waypoints_cs |-> recursive_mutex]

Init ==
    /\ now = 1
    /\ nav = Constructed(TAbstractNavigatorParams, TWaypointsNavigatorParams)
    /\ threads = NoCallInProgress

(* Every entry point starts with an empty call log.  h_suspended: suspend()
   was called in NAVIGATING and only ticks have run since; h_resumed: this
   is the resume() that followed; h_cancelled: cancel() was called and no
   request was made since; h_cancelsInARow: the number of cancel() calls
   that end the sequence of calls, up to 2; h_tickStart: the navigation
   state in which the last entry point, a tick, started; h_poseReadFailed:
   getCurrentPoseAndSpeeds() returned false in the last entry point. *)
Enter(s, op) ==
    [s EXCEPT !.calls = <<>>, !.exc = FALSE, !.h_targetDist = -1,
              !.h_edges = {}, !.h_poseReadFailed = FALSE,
              !.h_tickStart = IF op = "navigationStep"
                              THEN s.m_navigationState ELSE "none",
              !.h_resumed = (op = "resume" /\ s.h_suspended),
              !.h_suspended =
                  IF op = "suspend" THEN s.m_navigationState = NAVIGATING
                  ELSE IF op = "navigationStep" THEN @
                  ELSE FALSE,
              !.h_cancelsInARow = IF op = "cancel" THEN Min2(@ + 1, 2) ELSE 0,
              !.h_wpEvents = IF op \in {"navigateWaypoints", "cancel"}
                             THEN <<>> ELSE @,
              !.h_rejected = IF op \in {"navigate", "navigateWaypoints"}
                             THEN FALSE ELSE @,
              !.h_cancelled =
                  IF op = "cancel" THEN TRUE
                  ELSE IF op \in {"navigate", "navigateWaypoints"} THEN FALSE
                  ELSE @]

(* A request of the user: navigate() or navigateWaypoints() *)
Request(s) == [s EXCEPT !.h_requests = @ + 1]

-----------------------------------------------------------------------------
(* One action for each entry point *)

LoadConfigFile ==
    /\ ~nav.m_init_done
    /\ \E ok \in BOOLEAN, pa \in AbstractNavigatorParams,
          pw \in WaypointsNavigatorParams, pp \in AbstractPTGNavigatorParams :
          nav' = loadConfigFile(Enter(nav, "loadConfigFile"), ok, pa, pw, pp)
    /\ UNCHANGED <<now, threads>>

Navigate ==
    /\ nav.h_requests < MaxRequests
    /\ \E params \in Targets, rd \in PoseReads :
          /\ ~params.targetIsRelative => (rd.ok /\ rd.pose = 0)
          /\ nav' = navigate(Request(Enter(nav, "navigate")), now, params, rd)
    /\ UNCHANGED <<now, threads>>

NavigateWaypoints ==
    /\ nav.h_requests < MaxRequests
    /\ \E skips \in WaypointRequests :
          nav' = navigateWaypoints(Request(Enter(nav, "navigateWaypoints")), now,
                                   WaypointsAlongLine(skips))
    /\ UNCHANGED <<now, threads>>

Cancel ==
    /\ nav' = CWaypointsNavigator_cancel(Enter(nav, "cancel"))
    /\ UNCHANGED <<now, threads>>

Suspend ==
    /\ nav' = suspend(Enter(nav, "suspend"))
    /\ UNCHANGED <<now, threads>>

Resume ==
    /\ nav' = resume(Enter(nav, "resume"))
    /\ UNCHANGED <<now, threads>>

ResetNavError ==
    /\ nav' = resetNavError(Enter(nav, "resetNavError"))
    /\ UNCHANGED <<now, threads>>

(* the state after a tick, when it is within the bounds *)
TickResult(s) ==
    /\ CountersBounded(s)
    /\ nav' = s

(* An answer is enumerated only for a tick that asks for it: the pose when
   getCurrentPoseAndSpeeds() is called, the reactive answers when
   senseObstacles() is called. *)
NavigationStep ==
    /\ \E reach \in ReachInputs(nav) :
          \E rd \in (IF Called(CWaypointsNavigator_navigationStep(
                                   Enter(nav, "navigationStep"), now,
                                   TickInput(0, 0, 0, reach, NoAnswer)),
                               "getCurrentPoseAndSpeeds")
                      THEN Pos \X (0..2) ELSE {<<0, 0>>}) :
             \E react \in (IF Called(CWaypointsNavigator_navigationStep(
                                         Enter(nav, "navigationStep"), now,
                                         TickInput(rd[1], 0, rd[2], reach, NoAnswer)),
                                     "senseObstacles")
                            THEN ReactiveInputs ELSE {NoAnswer}) :
                TickResult(CWaypointsNavigator_navigationStep(
                               Enter(nav, "navigationStep"), now,
                               TickInput(rd[1], 0, rd[2], reach, react)))
    /\ UNCHANGED <<now, threads>>

(* time passes between two calls *)
Advance ==
    /\ \E d \in TimeSteps :
          /\ now + d <= MaxTime
          /\ now' = now + d
    /\ UNCHANGED <<nav, threads>>

(* time passes between two calls by the interval that the pose update tells
   apart; calls less than that interval apart are calls at the same time *)
AdvancePoseInterval ==
    /\ now + MIN_TIME_BETWEEN_POSE_UPDATES <= MaxTime
    /\ now' = now + MIN_TIME_BETWEEN_POSE_UPDATES
    /\ UNCHANGED <<nav, threads>>

Next ==
    \/ LoadConfigFile
    \/ Navigate
    \/ NavigateWaypoints
    \/ Cancel
    \/ Suspend
    \/ Resume
    \/ ResetNavError
    \/ NavigationStep
    \/ AdvancePoseInterval

Spec == Init /\ [][Next]_vars

TypeOK ==
    /\ nav.m_navigationState \in TState
    /\ nav.m_lastNavigationState \in TState
    /\ now \in 1..MaxTime

-----------------------------------------------------------------------------
(* The reactive pipeline with obstacles: a robot that stands at the origin
   with a target out of reach, and every answer of the PTG projection, the
   holonomic method, the optimiser and the robot interface.  The second
   request has another target than the first. *)

MaxRequestsReactive == 2

ObstacleDistances == {16, 24, ref_distance}

Speeds == {0, 5}

SecureDistanceEnds == {DEFAULT_SECURE_DISTANCE_END, 95}

(* the free way, and the obstacle in the chosen sector at each of the
   distances with the other sector at a different distance; the target in
   the other sector only with the chosen sector free *)
PTGAnswers ==
    {a \in [valid_TP : BOOLEAN, target_k : 0..(getPathCount - 1),
            TP_Obstacles : [1..getPathCount -> ObstacleDistances],
            desiredDirection : {1, 2}, desiredSpeed : {50, 100}] :
        /\ ~a.valid_TP => a = [FreeWay EXCEPT !.valid_TP = FALSE]
        /\ (a.valid_TP /\ a # FreeWay) =>
              LET chosen == alpha2index(a.desiredDirection) + 1
              IN  /\ \A k \in 1..getPathCount :
                        k # chosen =>
                            a.TP_Obstacles[k] =
                                (IF a.TP_Obstacles[chosen] = ref_distance
                                 THEN 16 ELSE ref_distance)
                  /\ a.target_k # 0 =>
                        (a.TP_Obstacles[chosen] = ref_distance
                            /\ a.desiredSpeed = 100)}

NOPAnswers ==
    {a \in [valid_pose : BOOLEAN, is_exact : BOOLEAN, valid_TP : BOOLEAN,
            target_k : {0},
            TP_Obstacles : {[i \in 1..getPathCount |-> ref_distance]}] :
        /\ ~a.valid_pose => (a.valid_TP /\ a.is_exact)
        /\ ~a.valid_TP => a.is_exact}

(* The answers that the outcome of the tick depends on: those about the
   regular candidates when one of them is preferred, those about the NOP
   candidate when it is preferred. *)
ReactiveAnswers ==
    {r \in [senseOk : BOOLEAN, timoff_pose2sense : {0}, timoff_pose2VelCmd : {0},
            ptg : [0..(nPTGs - 1) -> PTGAnswers],
            nop : NOPAnswers, best : -1..nPTGs, limits : {50, 100},
            stopCmd : BOOLEAN, sendOk : BOOLEAN] :
        /\ ~r.senseOk => r = [NoAnswer EXCEPT !.senseOk = FALSE]
        /\ r.best = -1 => r = NoAnswer
        /\ r.best # nPTGs => r.nop = FreeWayNOP
        /\ r.best = nPTGs =>
              /\ r.ptg = NoAnswer.ptg /\ r.limits = 100 /\ ~r.stopCmd
              /\ r.nop # FreeWayNOP => r.sendOk
        /\ (r.stopCmd \/ ~r.sendOk \/ r.limits # 100) =>
              (r.ptg = NoAnswer.ptg \/ r.best = nPTGs)
        /\ r.stopCmd => (r.sendOk /\ r.limits = 100)
        /\ ~r.sendOk => r.limits = 100}

LoadConfigFileReactive ==
    /\ ~nav.m_init_done
    /\ \E ok \in BOOLEAN, e \in SecureDistanceEnds :
          nav' = loadConfigFile(Enter(nav, "loadConfigFile"), ok,
                                TAbstractNavigatorParams, TWaypointsNavigatorParams,
                                [secure_distance_start |-> DEFAULT_SECURE_DISTANCE_START,
                                 secure_distance_end |-> e,
                                 use_delays_model |-> FALSE])
    /\ UNCHANGED <<now, threads>>

NavigateReactive ==
    /\ nav.h_requests < MaxRequestsReactive
    /\ nav' = navigate(Request(Enter(nav, "navigate")), now,
                       TNavigationParams(1 + nav.h_requests, 1, FALSE, FALSE),
                       [ok |-> TRUE, pose |-> 0, vel |-> 0])
    /\ UNCHANGED <<now, threads>>

NavigationStepReactive ==
    /\ \E vel \in (IF Called(CWaypointsNavigator_navigationStep(
                                Enter(nav, "navigationStep"), now,
                                TickInput(0, 0, 0, <<>>, NoAnswer)),
                            "getCurrentPoseAndSpeeds")
                   THEN Speeds ELSE {0}) :
          \E react \in (IF Called(CWaypointsNavigator_navigationStep(
                                      Enter(nav, "navigationStep"), now,
                                      TickInput(0, vel, 0, <<>>, NoAnswer)),
                                  "senseObstacles")
                         THEN ReactiveAnswers ELSE {NoAnswer}) :
             nav' = CWaypointsNavigator_navigationStep(
                        Enter(nav, "navigationStep"), now,
                        TickInput(0, vel, 0, <<>>, react))
    /\ UNCHANGED <<now, threads>>

NextReactive ==
    \/ LoadConfigFileReactive
    \/ NavigateReactive
    \/ NavigationStepReactive
    \/ Advance

SpecReactive == Init /\ [][NextReactive]_vars

-----------------------------------------------------------------------------
(* The waypoint sequencer with its look-ahead: a robot that stands at the
   origin, out of the allowed distance of every waypoint, and every answer
   of the reachability query.  h_ticks: the ticks since navigateWaypoints();
   h_alwaysReachable: every waypoint was within the domain of the PTGs in each of
   them. *)

MaxTicks == 4

SkipDistances == {-1, 1}

ConfirmTimesteps == {0, 2}

(* waypoints at 1, 2, 3 along the line, or a first waypoint at 2 followed by
   one at 1; allow_skip of the last one is never consulted by the look-ahead
   and is left TRUE *)
WaypointLayouts ==
    {<<1>>, <<1, 2>>, <<1, 2, 3>>, <<2, 1>>}

WaypointSkipRequests ==
    {w \in UNION {[1..n -> [target : 1..3, allowed_distance : {1},
                             allow_skip : BOOLEAN]] : n \in 1..3} :
        /\ [i \in DOMAIN w |-> w[i].target] \in WaypointLayouts
        /\ w[Len(w)].allow_skip}

(* the way is free and the optimiser prefers the first PTG *)
GoAhead == [NoAnswer EXCEPT !.best = 0]

LoadConfigFileWaypoints ==
    /\ ~nav.m_init_done
    /\ \E d \in SkipDistances, n \in ConfirmTimesteps :
          nav' = loadConfigFile(Enter(nav, "loadConfigFile"), TRUE,
                                TAbstractNavigatorParams,
                                [max_distance_to_allow_skip_waypoint |-> d,
                                 min_timesteps_confirm_skip_waypoints |-> n],
                                TAbstractPTGNavigatorParams)
    /\ UNCHANGED <<now, threads>>

NavigateWaypointsSkip ==
    /\ nav.m_init_done
    /\ nav.h_requests < MaxRequests
    /\ \E w \in WaypointSkipRequests :
          nav' = [navigateWaypoints(Request(Enter(nav, "navigateWaypoints")),
                                    now, w)
                     EXCEPT !.h_ticks = 0, !.h_alwaysReachable = TRUE]
    /\ UNCHANGED <<now, threads>>

NavigationStepWaypoints ==
    /\ nav.h_requests > 0
    /\ nav.h_ticks < MaxTicks
    /\ \E reach \in ReachInputs(nav) :
          nav' = [CWaypointsNavigator_navigationStep(
                      Enter(nav, "navigationStep"), now,
                      TickInput(0, 0, 0, reach, GoAhead))
                     EXCEPT !.h_ticks = @ + 1,
                            !.h_alwaysReachable =
                                @ /\ \A i \in DOMAIN reach :
                                         reach[i] = WpAtOrigin]
    /\ UNCHANGED <<now, threads>>

NextWaypoints ==
    \/ LoadConfigFileWaypoints
    \/ NavigateWaypointsSkip
    \/ NavigationStepWaypoints

SpecWaypoints == Init /\ [][NextWaypoints]_vars

-----------------------------------------------------------------------------
(* navigate() in the plane: a robot at any of a few poses and targets given
   in the frame of the robot or in the global frame.  h_request: the
   parameters as they were given to the last navigate(). *)

MaxRequestsPlanar == 2

PlanarPoses == {TPose2D(x, y, phi) : x \in {0, 2}, y \in {0, 3}, phi \in {0, 1}}

PlanarTargets == {TPose2D(x, y, phi) : x \in {0, 1}, y \in {0, 1}, phi \in {-1, 0}}

NavigatePlanar ==
    /\ nav.h_requests < MaxRequestsPlanar
    /\ \E target \in PlanarTargets, relative \in BOOLEAN,
          rd \in [ok : BOOLEAN, pose : PlanarPoses, vel : {0}] :
          LET params == TNavigationParams(target, 1, relative, FALSE)
              s == navigate(Request(Enter(nav, "navigate")), now, params, rd)
          IN  /\ ~Called(s, "getCurrentPoseAndSpeeds") =>
                    rd = [ok |-> TRUE, pose |-> TPose2D(0, 0, 0), vel |-> 0]
              /\ nav' = [s EXCEPT !.h_request = params]
    /\ UNCHANGED <<now, threads>>

NextPlanar ==
    \/ NavigatePlanar
    \/ Advance

SpecPlanar == Init /\ [][NextPlanar]_vars

-----------------------------------------------------------------------------
(* The reachability query after reactive ticks with obstacles: a robot that
   stands at the origin with a target out of reach; each tick fills the
   per-PTG information, time passes by the maximum age of that information
   or a little more, and the query is asked for points anywhere in the
   TP-space of the PTGs.  The query is logged with its time and its answer. *)

MaxTimeReachable == 102

InfoAgeSteps == {MAX_INFO_AGE, MAX_INFO_AGE + 1}

(* a point out of the domain of a PTG, or in one of its sectors just nearer
   than an obstacle distance or at that distance *)
InverseMapAnswers ==
    {a \in [is_into_domain : BOOLEAN, wp_k : 0..(getPathCount - 1),
            wp_norm_d : {3, 4, 99, 100}] :
        ~a.is_into_domain => (a.wp_k = 0 /\ a.wp_norm_d = 3)}

LoadConfigFileReachable ==
    /\ ~nav.m_init_done
    /\ nav' = loadConfigFile(Enter(nav, "loadConfigFile"), TRUE,
                             TAbstractNavigatorParams, TWaypointsNavigatorParams,
                             TAbstractPTGNavigatorParams)
    /\ UNCHANGED <<now, threads>>

(* a tick with the obstacles anywhere and the first PTG preferred *)
NavigationStepObstacles ==
    /\ nav.m_init_done
    /\ \E ptg \in [0..(nPTGs - 1) -> PTGAnswers] :
          nav' = CWaypointsNavigator_navigationStep(
                     Enter(nav, "navigationStep"), now,
                     TickInput(0, 0, 0, <<>>,
                               [NoAnswer EXCEPT !.ptg = ptg, !.best = 0]))
    /\ UNCHANGED <<now, threads>>

WaypointIsReachable ==
    /\ \E wp \in [0..(nPTGs - 1) -> InverseMapAnswers] :
          nav' = Call(Enter(nav, "impl_waypoint_is_reachable"),
                      "impl_waypoint_is_reachable",
                      [wp |-> wp, t |-> now,
                       result |-> impl_waypoint_is_reachable(nav, now, wp)])
    /\ UNCHANGED <<now, threads>>

AdvanceInfoAge ==
    /\ \E d \in InfoAgeSteps :
          /\ now + d <= MaxTimeReachable
          /\ now' = now + d
    /\ UNCHANGED <<nav, threads>>

NextReachable ==
    \/ LoadConfigFileReachable
    \/ NavigateReactive
    \/ NavigationStepObstacles
    \/ WaypointIsReachable
    \/ AdvanceInfoAge

SpecReachable == Init /\ [][NextReachable]_vars

-----------------------------------------------------------------------------

(* The entry points called from two threads.  An entry point is taken
   region by region: a thread enters a region when it has locked the mutex
   that guards it, and the code of the region takes effect when the thread
   leaves it and unlocks the mutex.  threads.pc[th] is the region thread th
   is in; "idle": none, "cancel_unlocked" and "tick_unlocked": between the
   two regions of cancel() and of navigationStep().  The robot stands at the
   origin and the way is free. *)

MaxRequestsThreads == 2

lockable(m, th) == m.owner \in {0, th}

lock(m, th) == [owner |-> th, count |-> m.count + 1]

unlock(m) ==
    IF m.count = 1 THEN recursive_mutex ELSE [m EXCEPT !.count = @ - 1]

StateCalls == {"suspend", "resume", "resetNavError"}

(* thread th enters the region pc, guarded by m_nav_cs *)
EnterNav(th, pc) ==
    /\ lockable(threads.m_nav_cs, th)
    /\ threads' = [threads EXCEPT !.pc[th] = pc,
                                  !.m_nav_cs = lock(@, th)]

(* thread th leaves its region guarded by m_nav_cs *)
LeaveNav(th, pc) ==
    threads' = [threads EXCEPT !.pc[th] = pc, !.m_nav_cs = unlock(@)]

(* the same for m_nav_waypoints_cs *)
EnterWaypoints(th, pc) ==
    /\ lockable(threads.m_nav_waypoints_cs, th)
    /\ threads' = [threads EXCEPT !.pc[th] = pc,
                                  !.m_nav_waypoints_cs = lock(@, th)]

LeaveWaypoints(th, pc) ==
    threads' = [threads EXCEPT !.pc[th] = pc,
                               !.m_nav_waypoints_cs = unlock(@)]

BeginNavigate ==
    /\ nav.h_requests < MaxRequestsThreads
    /\ \E th \in Threads, relative \in BOOLEAN :
          /\ threads.pc[th] = "idle"
          /\ lockable(threads.m_nav_cs, th)
          /\ threads' = [threads EXCEPT
                            !.pc[th] = "navigate",
                            !.params[th] = TNavigationParams(1, 1, relative, FALSE),
                            !.m_nav_cs = lock(@, th)]
    /\ nav' = Request(nav)
    /\ UNCHANGED now

EndNavigate ==
    /\ \E th \in Threads :
          /\ threads.pc[th] = "navigate"
          /\ nav' = navigate(Enter(nav, "navigate"), now, threads.params[th],
                             [ok |-> TRUE, pose |-> 0, vel |-> 0])
          /\ LeaveNav(th, "idle")
    /\ UNCHANGED now

BeginNavigateWaypoints ==
    /\ nav.h_requests < MaxRequestsThreads
    /\ \E th \in Threads :
          /\ threads.pc[th] = "idle"
          /\ EnterWaypoints(th, "navigateWaypoints")
    /\ nav' = Request(nav)
    /\ UNCHANGED now

EndNavigateWaypoints ==
    /\ \E th \in Threads :
          /\ threads.pc[th] = "navigateWaypoints"
          /\ nav' = navigateWaypoints(Enter(nav, "navigateWaypoints"), now,
                                      WaypointsAlongLine(<<TRUE, TRUE>>))
          /\ LeaveWaypoints(th, "idle")
    /\ UNCHANGED now

(* CWaypointsNavigator::cancel(): the waypoint sequence under
   m_nav_waypoints_cs, then CAbstractNavigator::cancel() under m_nav_cs *)
BeginCancel ==
    /\ \E th \in Threads :
          /\ threads.pc[th] = "idle"
          /\ EnterWaypoints(th, "cancel_waypoints")
    /\ UNCHANGED <<nav, now>>

CancelWaypoints ==
    /\ \E th \in Threads :
          /\ threads.pc[th] = "cancel_waypoints"
          /\ nav' = [Enter(nav, "cancel") EXCEPT
                        !.m_waypoint_nav_status = TWaypointStatusSequence]
          /\ LeaveWaypoints(th, "cancel_unlocked")
    /\ UNCHANGED now

LockCancel ==
    /\ \E th \in Threads :
          /\ threads.pc[th] = "cancel_unlocked"
          /\ EnterNav(th, "cancel")
    /\ UNCHANGED <<nav, now>>

EndCancel ==
    /\ \E th \in Threads :
          /\ threads.pc[th] = "cancel"
          /\ nav' = CAbstractNavigator_cancel(nav)
          /\ LeaveNav(th, "idle")
    /\ UNCHANGED now

(* suspend(), resume() and resetNavError() *)
BeginStateCall ==
    /\ \E th \in Threads, op \in StateCalls :
          /\ threads.pc[th] = "idle"
          /\ EnterNav(th, op)
    /\ UNCHANGED <<nav, now>>

EndStateCall ==
    /\ \E th \in Threads :
          /\ threads.pc[th] \in StateCalls
          /\ nav' = CASE threads.pc[th] = "suspend" ->
                             suspend(Enter(nav, "suspend"))
                      [] threads.pc[th] = "resume" ->
                             resume(Enter(nav, "resume"))
                      [] threads.pc[th] = "resetNavError" ->
                             resetNavError(Enter(nav, "resetNavError"))
          /\ LeaveNav(th, "idle")
    /\ UNCHANGED now

(* CWaypointsNavigator::navigationStep(): the waypoints part under
   m_nav_waypoints_cs, then CAbstractNavigator::navigationStep() under
   m_nav_cs.  The navigate() of a new waypoint target locks m_nav_cs. *)
BeginTick ==
    /\ \E th \in Threads :
          /\ threads.pc[th] = "idle"
          /\ EnterWaypoints(th, "tick_waypoints")
    /\ UNCHANGED <<nav, now>>

EndWaypointsPart ==
    /\ \E th \in Threads :
          /\ threads.pc[th] = "tick_waypoints"
          /\ \E reach \in ReachInputs(nav) :
                /\ nav' = WaypointsPart(Enter(nav, "navigationStep"), now,
                                        [ok |-> TRUE, pose |-> 0, vel |-> 0], reach)
                /\ CountersBounded(nav')
                /\ Called(nav', "newWpTarget") => lockable(threads.m_nav_cs, th)
          /\ LeaveWaypoints(th, "tick_unlocked")
    /\ UNCHANGED now

LockTick ==
    /\ \E th \in Threads :
          /\ threads.pc[th] = "tick_unlocked"
          /\ EnterNav(th, "tick")
    /\ UNCHANGED <<nav, now>>

EndTick ==
    /\ \E th \in Threads :
          /\ threads.pc[th] = "tick"
          /\ nav' = CAbstractNavigator_navigationStep(
                        [nav EXCEPT !.exc = FALSE], now,
                        [ok |-> TRUE, pose |-> 0, vel |-> 0], GoAhead)
          /\ LeaveNav(th, "idle")
    /\ UNCHANGED now

AdvanceThreads ==
    /\ \E d \in TimeSteps :
          /\ now + d <= MaxTime
          /\ now' = now + d
    /\ UNCHANGED <<nav, threads>>

NextThreads ==
    \/ BeginNavigate
    \/ EndNavigate
    \/ BeginNavigateWaypoints
    \/ EndNavigateWaypoints
    \/ BeginCancel
    \/ CancelWaypoints
    \/ LockCancel
    \/ EndCancel
    \/ BeginStateCall
    \/ EndStateCall
    \/ BeginTick
    \/ EndWaypointsPart
    \/ LockTick
    \/ EndTick
    \/ AdvanceThreads

SpecThreads == Init /\ [][NextThreads]_vars

-----------------------------------------------------------------------------

(* The pose history over tens of seconds: a robot that moves along the line
   towards a target out of reach, with pose reads that succeed or fail, and
   time that passes by half the maximum age of the history or a little
   more. *)

MaxTimeHistory == 3003

HistorySteps == {PREVIOUS_POSES_MAX_AGE \div 2, PREVIOUS_POSES_MAX_AGE \div 2 + 1}

NavigateHistory ==
    /\ nav.h_requests < MaxRequests
    /\ \E relative \in BOOLEAN, rd \in PoseReads :
          /\ ~relative => (rd.ok /\ rd.pose = 0)
          /\ nav' = navigate(Request(Enter(nav, "navigate")), now,
                             TNavigationParams(MaxPos + 2, 1, relative, FALSE), rd)
    /\ UNCHANGED <<now, threads>>

NavigationStepHistory ==
    /\ \E rd \in PoseReads :
          nav' = CWaypointsNavigator_navigationStep(
                     Enter(nav, "navigationStep"), now,
                     TickInput(rd.pose, 0, IF rd.ok THEN 0 ELSE 2, <<>>, GoAhead))
    /\ UNCHANGED <<now, threads>>

AdvanceHistory ==
    /\ \E d \in HistorySteps :
          /\ now + d <= MaxTimeHistory
          /\ now' = now + d
    /\ UNCHANGED <<nav, threads>>

NextHistory ==
    \/ LoadConfigFileReachable
    \/ NavigateHistory
    \/ NavigationStepHistory
    \/ Cancel
    \/ ResetNavError
    \/ AdvanceHistory

SpecHistory == Init /\ [][NextHistory]_vars

-----------------------------------------------------------------------------

(* The delays model: a robot that moves along the line towards a target out
   of reach, with the delays model switched on or off by the configuration
   and any time offsets between the pose, the obstacles and the command. *)

TimeOffsets == {-1, 0, 1}

LoadConfigFileDelays ==
    /\ ~nav.m_init_done
    /\ \E use_delays_model \in BOOLEAN :
          nav' = loadConfigFile(Enter(nav, "loadConfigFile"), TRUE,
                                TAbstractNavigatorParams, TWaypointsNavigatorParams,
                                [TAbstractPTGNavigatorParams EXCEPT
                                    !.use_delays_model = use_delays_model])
    /\ UNCHANGED <<now, threads>>

NavigationStepDelays ==
    /\ \E pose \in Pos, vel \in Speeds,
          timoff_pose2sense \in TimeOffsets, timoff_pose2VelCmd \in TimeOffsets :
          nav' = CWaypointsNavigator_navigationStep(
                     Enter(nav, "navigationStep"), now,
                     TickInput(pose, vel, 0, <<>>,
                               [GoAhead EXCEPT
                                   !.timoff_pose2sense = timoff_pose2sense,
                                   !.timoff_pose2VelCmd = timoff_pose2VelCmd]))
    /\ UNCHANGED <<now, threads>>

NextDelays ==
    \/ LoadConfigFileDelays
    \/ NavigateReactive
    \/ NavigationStepDelays
    \/ Advance

SpecDelays == Init /\ [][NextDelays]_vars

-----------------------------------------------------------------------------

(* One navigation after another: requests to a target on the line that
   follow a cancel(), an arrival or a resetNavError() with or without a
   tick in between, and ticks with every outcome of the optimiser. *)

MaxRequestsRestart == 2

RestartTargets == 1..(MaxPos + 1)

(* a new command, the continuation of the last one, a stop command, no
   candidate, and a command that the robot refuses *)
RestartAnswers ==
    {GoAhead, [NoAnswer EXCEPT !.best = nPTGs],
     [GoAhead EXCEPT !.stopCmd = TRUE], NoAnswer,
     [GoAhead EXCEPT !.sendOk = FALSE]}

NavigateRestart ==
    /\ nav.h_requests < MaxRequestsRestart
    /\ \E target \in RestartTargets :
          nav' = navigate(Request(Enter(nav, "navigate")), now,
                          TNavigationParams(target, 1, FALSE, FALSE),
                          [ok |-> TRUE, pose |-> 0, vel |-> 0])
    /\ UNCHANGED <<now, threads>>

NavigationStepRestart ==
    /\ \E rd \in PoseReads, react \in RestartAnswers :
          nav' = CWaypointsNavigator_navigationStep(
                     Enter(nav, "navigationStep"), now,
                     TickInput(rd.pose, rd.vel, IF rd.ok THEN 0 ELSE 2, <<>>, react))
    /\ UNCHANGED <<now, threads>>

NextRestart ==
    \/ LoadConfigFileReachable
    \/ NavigateRestart
    \/ NavigationStepRestart
    \/ Cancel
    \/ ResetNavError
    \/ Advance

SpecRestart == Init /\ [][NextRestart]_vars

-----------------------------------------------------------------------------

(* The scores of the NOP candidate.  Lengths in the workspace are in cm,
   distances in TP-space in hundredths of the reference distance.
   q stands for the inputs of calc_move_candidate_scores() when
   this_is_PTG_continuation is true:
     rel_x, rel_y    rel_cur_pose_wrt_last_vel_cmd_NOP;
     move_k          the sector of the command that is continued;
     in_TPObstacles  the normalised TP-obstacles of its PTG;
     inverseMap      what inverseMap_WS2TP() answers for (rel_x, rel_y):
                     is_exact (the point is in the domain of the PTG), cur_k
                     and the normalised distance cur_norm_d;
     getPathDist     what getPathDist() answers for the step that it is
                     asked for, a length along the path;
     ok1             the answer of getPathStepForDist();
     bijective_cur, bijective_pred
                     the answers of isBijectiveAt() for the step found and
                     for the predicted step;
     predicted2real_dist
                     the distance from the pose predicted on the path of the
                     command to the pose of the robot. *)

DEFAULT_MAX_DISTANCE_PREDICTED_ACTUAL_PATH == 15
DEFAULT_MAX_DIST_FOR_TIMEBASED_PATH_PREDICTION == 200

NOPScoreInputs ==
    [rel_x : {40, 240}, rel_y : {0},
     move_k : 0..(getPathCount - 1),
     in_TPObstacles : [1..getPathCount -> {50, 100}],
     inverseMap : [is_exact : BOOLEAN, cur_k : 0..(getPathCount - 1),
                   cur_norm_d : {10, 20}],
     getPathDist : {40, 80},
     ok1 : BOOLEAN, bijective_cur : BOOLEAN, bijective_pred : BOOLEAN,
     predicted2real_dist : {10, 20}]

(* "cm.speed = -0.01; return;" *)
NOPNotAllowed(q, is_time_based) ==
    [speed |-> INVALID_SPEED, colfree |-> q.in_TPObstacles[q.move_k + 1],
     cur_k |-> 0, cur_norm_d |-> 0, is_time_based |-> is_time_based,
     WS_point_is_unique |-> TRUE]

(* the free distance after the pose of the robot on the path *)
NOPFreeDistance(q, cur_k, cur_norm_d, is_time_based, WS_point_is_unique) ==
    LET colfree == IF WS_point_is_unique
                   THEN Min2(q.in_TPObstacles[q.move_k + 1],
                             q.in_TPObstacles[cur_k + 1])
                   ELSE q.in_TPObstacles[q.move_k + 1]
    IN  [speed |-> Rat(1, 1),
         colfree |-> IF colfree < 99 THEN colfree - cur_norm_d ELSE colfree,
         cur_k |-> cur_k, cur_norm_d |-> cur_norm_d,
         is_time_based |-> is_time_based,
         WS_point_is_unique |-> WS_point_is_unique]

(* the scorer that trusts the path whatever the mismatch *)
calc_move_candidate_scores_ignoringMismatch(q) ==
    LET maxD == DEFAULT_MAX_DIST_FOR_TIMEBASED_PATH_PREDICTION
        is_time_based == ~(Abs(q.rel_x) > maxD \/ Abs(q.rel_y) > maxD)
    IN  IF is_time_based
        THEN NOPFreeDistance(q, q.move_k, (q.getPathDist * 100) \div ref_distance,
                             TRUE, TRUE)
        ELSE IF ~q.inverseMap.is_exact
             THEN NOPNotAllowed(q, FALSE)
             ELSE IF ~q.ok1
                  THEN NOPNotAllowed(q, FALSE)
                  ELSE LET WS_point_is_unique == q.bijective_cur /\ q.bijective_pred
                       IN  NOPFreeDistance(
                               q,
                               IF WS_point_is_unique
                               THEN q.inverseMap.cur_k ELSE q.move_k,
                               IF WS_point_is_unique
                               THEN q.inverseMap.cur_norm_d ELSE q.getPathDist,
                               FALSE, WS_point_is_unique)

(* calc_move_candidate_scores(), the special case for the NOP command *)
calc_move_candidate_scores(q) ==
    LET maxD == DEFAULT_MAX_DIST_FOR_TIMEBASED_PATH_PREDICTION
        is_time_based == ~(Abs(q.rel_x) > maxD \/ Abs(q.rel_y) > maxD)
    IN  IF is_time_based
        THEN NOPFreeDistance(q, q.move_k, (q.getPathDist * 100) \div ref_distance,
                             TRUE, TRUE)
        ELSE IF ~q.inverseMap.is_exact
             THEN NOPNotAllowed(q, FALSE)
             ELSE IF ~q.ok1
                  THEN NOPNotAllowed(q, FALSE)
                  ELSE LET WS_point_is_unique == q.bijective_cur /\ q.bijective_pred
                       IN  IF q.predicted2real_dist >
                                 DEFAULT_MAX_DISTANCE_PREDICTED_ACTUAL_PATH
                           THEN NOPNotAllowed(q, FALSE)
                           ELSE NOPFreeDistance(
                                    q,
                                    IF WS_point_is_unique
                                    THEN q.inverseMap.cur_k ELSE q.move_k,
                                    IF WS_point_is_unique
                                    THEN q.inverseMap.cur_norm_d ELSE q.getPathDist,
                                    FALSE, WS_point_is_unique)

(* one evaluation of the NOP candidate, logged with its inputs *)
CalcMoveCandidateScores ==
    /\ ~Called(nav, "scores")
    /\ \E q \in NOPScoreInputs :
          nav' = Call(Enter(nav, "calc_move_candidate_scores"), "scores",
                      [in |-> q, out |-> calc_move_candidate_scores(q)])
    /\ UNCHANGED <<now, threads>>

NextScores ==
    \/ CalcMoveCandidateScores

SpecScores == Init /\ [][NextScores]_vars

-----------------------------------------------------------------------------

(* Requests that navigateWaypoints() rejects, among requests that it accepts:
   a waypoint of a request may lack its target *)

MaxRequestsRejected == 2

WaypointTargets == {0, 1, INVALID_NUM}

RejectableRequests ==
    UNION {[1..n -> [target : WaypointTargets, allowed_distance : {1},
                     allow_skip : {TRUE}]] : n \in 0..MaxWps}

NavigateWaypointsRejectable ==
    /\ nav.m_init_done
    /\ nav.h_requests < MaxRequestsRejected
    /\ \E w \in RejectableRequests :
          nav' = navigateWaypoints(Request(Enter(nav, "navigateWaypoints")),
                                   now, w)
    /\ UNCHANGED <<now, threads>>

NavigationStepRejectable ==
    /\ \E pose \in Pos, a \in {WpAtOrigin, WpOutOfDomain} :
          TickResult(CWaypointsNavigator_navigationStep(
                         Enter(nav, "navigationStep"), now,
                         TickInput(pose, 0, 0,
                                   [i \in DOMAIN nav.m_waypoint_nav_status.waypoints |-> a],
                                   GoAhead)))
    /\ UNCHANGED <<now, threads>>

NextRejected ==
    \/ LoadConfigFileWaypoints
    \/ NavigateWaypointsRejectable
    \/ NavigationStepRejectable
    \/ Cancel

SpecRejected == Init /\ [][NextRejected]_vars

-----------------------------------------------------------------------------

(* Properties of the state machine *)

Events(s) == {i \in DOMAIN s.calls : s.calls[i].ev \in EventNames}

SentVelCmd(s) == \E i \in DOMAIN s.calls : s.calls[i].ev \in VelCmdNames

(* the edges of the state diagram in CAbstractNavigator.h *)
DocumentedEdges ==
    {<<IDLE, NAVIGATING>>, <<NAVIGATING, IDLE>>, <<NAVIGATING, NAV_ERROR>>,
     <<NAVIGATING, SUSPENDED>>, <<SUSPENDED, NAVIGATING>>, <<NAV_ERROR, IDLE>>}

(* C1: every change of the navigation state made by navigate,
   navigateWaypoints, cancel, suspend, resume, resetNavError or
   navigationStep is one of the six documented edges. *)
C1_OnlyDocumentedEdges == nav.h_edges \subseteq DocumentedEdges

(* C2: a navigationStep that starts in SUSPENDED or NAV_ERROR changes the
   navigation state neither during the tick nor by its end, also while a
   waypoint sequence is pending. *)
C2_TickKeepsSuspendedAndNavError ==
    nav.h_tickStart \in {SUSPENDED, NAV_ERROR} =>
        /\ nav.m_navigationState = nav.h_tickStart
        /\ nav.h_edges = {}

(* C3: resume() after a suspend() that was called in NAVIGATING, with only
   navigationStep ticks in between, leaves the state NAVIGATING. *)
C3_SuspendResumeKeepsNavigating ==
    nav.h_resumed => nav.m_navigationState = NAVIGATING

(* the current target *)
Target == nav.m_navigationParams[1]

HasTarget == nav.m_navigationParams # <<>>

(* C4: cancel() called twice in a row from any state leaves the state IDLE;
   the second call emits no event and leaves the navigator as the first
   call left it. *)
C4_CancelTwice ==
    LET first  == CWaypointsNavigator_cancel(Enter(nav, "cancel"))
        second == CWaypointsNavigator_cancel(Enter(first, "cancel"))
    IN  /\ second.m_navigationState = IDLE
        /\ Events(second) = {}
        /\ second = [first EXCEPT !.h_edges = {},
                                  !.h_cancelsInARow = second.h_cancelsInARow]

(* two cancel() calls in a row have acted on a navigation in progress *)
C4_Witness ==
    /\ nav.h_cancelsInARow = 2
    /\ HasTarget
    /\ nav.m_lastNavigationState = NAVIGATING
    /\ nav.calls = <<[ev |-> "stop", arg |-> -1]>>

(* C5: cancel() in any state sets the state to IDLE, issues a non-emergency
   stop and clears the waypoint sequence; until the next navigate() or
   navigateWaypoints() request every navigationStep leaves the state IDLE
   and sends no velocity command. *)
C5_CancelStopsNavigation ==
    /\ LET c == CWaypointsNavigator_cancel(Enter(nav, "cancel"))
       IN  /\ c.m_navigationState = IDLE
           /\ c.calls = <<[ev |-> "stop", arg |-> -1]>>
           /\ c.m_waypoint_nav_status = TWaypointStatusSequence
    /\ nav.h_cancelled =>
           /\ nav.m_navigationState = IDLE
           /\ nav.m_waypoint_nav_status = TWaypointStatusSequence
           /\ ~SentVelCmd(nav)
           /\ nav.h_tickStart \in {"none", IDLE}

(* a tick has run after the cancel() of a waypoint navigation in progress *)
C5_Witness ==
    /\ nav.h_cancelled
    /\ nav.h_tickStart = IDLE
    /\ nav.m_lastNavigationState = IDLE
    /\ Called(nav, "stopWatchdog")
    /\ HasTarget /\ Target.targetIsIntermediaryWaypoint

(* C6: while the current target is an intermediary waypoint no
   navigation-end event is emitted, whatever the distance to the target and
   dist_to_target_for_sending_event. *)
C6_NoNavEndForIntermediary ==
    (HasTarget /\ Target.targetIsIntermediaryWaypoint) =>
        /\ ~Called(nav, "navEnd")
        /\ nav.h_navEnd = 0

(* a tick found the robot within the allowed distance of an intermediary
   target and within the distance for sending the event *)
C6_Witness ==
    /\ HasTarget /\ Target.targetIsIntermediaryWaypoint
    /\ nav.h_targetDist >= 0
    /\ nav.h_targetDist < Target.targetAllowedDistance
    /\ nav.h_targetDist < nav.params_abstract_navigator.dist_to_target_for_sending_event
    /\ nav.m_lastNavTargetReached

(* C7: for a non-intermediary target the navigation-end event is emitted at
   most once per navigate() request, and exactly once by the time the state
   becomes IDLE through arrival. *)
C7_NavEndOnce ==
    /\ nav.h_navEnd <= 1
    /\ (HasTarget /\ ~Target.targetIsIntermediaryWaypoint) =>
          /\ nav.m_lastNavTargetReached => nav.h_navEnd = 1
          /\ (nav.h_targetDist >= 0
                /\ nav.h_targetDist < Target.targetAllowedDistance) =>
                 /\ nav.m_navigationState = IDLE
                 /\ nav.m_lastNavTargetReached

(* arrival in a tick later than the one that sent the event *)
C7_Witness ==
    /\ HasTarget /\ ~Target.targetIsIntermediaryWaypoint
    /\ nav.h_tickStart = NAVIGATING
    /\ nav.h_targetDist >= 0
    /\ nav.h_targetDist < Target.targetAllowedDistance
    /\ nav.m_navigationState = IDLE
    /\ nav.h_navEnd = 1
    /\ ~Called(nav, "navEnd")

(* C8: when arrival is detected the target is marked reached; for a final
   target the robot is stopped and the state becomes IDLE, for an
   intermediary waypoint the robot is not stopped and the state stays
   NAVIGATING. *)
C8_ArrivalHandling ==
    (nav.h_targetDist >= 0 /\ nav.h_targetDist < Target.targetAllowedDistance) =>
        /\ nav.m_lastNavTargetReached
        /\ Target.targetIsIntermediaryWaypoint =>
               (nav.m_navigationState = NAVIGATING /\ ~Called(nav, "stop"))
        /\ ~Target.targetIsIntermediaryWaypoint =>
               (nav.m_navigationState = IDLE /\ Called(nav, "stop"))

(* the step is a navigationStep that started in state st *)
TickFrom(st) ==
    /\ nav.m_navigationState = st
    /\ nav'.h_tickStart = st
    /\ now' = now

(* C9: a tick in NAVIGATING that finds the distance to the target not below
   the minimum seen since navigate(), more than
   alarm_seems_not_approaching_target_timeout after that minimum was last
   improved, emits the way-blocked event and goes to NAV_ERROR; the event
   is emitted at most once for a navigation and never before the timeout
   has elapsed. *)
C9_WayBlockedAlarm ==
    [][/\ nav'.h_wayBlocked <= 1
       /\ \A i \in DOMAIN nav'.calls :
              nav'.calls[i].ev = "wayBlocked" =>
                  /\ nav'.calls[i].arg >
                        nav'.params_abstract_navigator.alarm_seems_not_approaching_target_timeout
                  /\ nav'.m_navigationState = NAV_ERROR
                  /\ nav'.h_wayBlocked = 1
       /\ (/\ TickFrom(NAVIGATING)
           /\ ~Called(nav', "newWpTarget")
           /\ nav'.h_targetDist >= 0
           /\ nav'.h_targetDist >= nav.m_badNavAlarm_minDistTarget
           /\ now - nav.m_badNavAlarm_lastMinDistTime >
                 nav.params_abstract_navigator.alarm_seems_not_approaching_target_timeout)
          => /\ Called(nav', "wayBlocked")
             /\ nav'.m_navigationState = NAV_ERROR]_vars

(* the alarm was raised by a tick *)
C9_Witness ==
    /\ nav.h_tickStart = NAVIGATING
    /\ Called(nav, "wayBlocked")
    /\ nav.m_navigationState = NAV_ERROR
    /\ nav.h_targetDist >= nav.m_badNavAlarm_minDistTarget

(* C10: the first tick after a change from NAVIGATING to NAV_ERROR, if it
   returns without throwing and leaves the state NAV_ERROR, emits the
   navigation-end-due-to-error event once, stops the robot (no emergency)
   and stops the watchdog; a tick in NAV_ERROR that follows such a tick
   does none of the three. *)
C10_NavErrorReportedOnce ==
    [][(TickFrom(NAV_ERROR) /\ ~nav'.exc /\ nav'.h_edges = {}) =>
          /\ <<NAVIGATING, NAV_ERROR>> \in nav.h_edges =>
                /\ CountCalls(nav', "navEndError") = 1
                /\ Called(nav', "stop")
                /\ Called(nav', "stopWatchdog")
          /\ (nav.h_tickStart = NAV_ERROR /\ ~nav.exc /\ nav.h_edges = {}) =>
                /\ ~Called(nav', "navEndError")
                /\ ~Called(nav', "stop")
                /\ ~Called(nav', "stopWatchdog")]_vars

-----------------------------------------------------------------------------
(* Properties of the error handling *)

(* C11: when getCurrentPoseAndSpeeds() fails, in navigate() with a relative
   target, in the waypoint part of the tick or in the state-machine tick,
   an emergency stop is issued, the state is NAV_ERROR when the call ends
   and no velocity command is sent in that call. *)
C11_PoseReadFailure ==
    nav.h_poseReadFailed =>
        /\ Called(nav, "stopEmergency")
        /\ nav.m_navigationState = NAV_ERROR
        /\ ~SentVelCmd(nav)

(* the pose read of the state-machine tick failed during a navigation that
   had already sent a velocity command *)
C11_Witness ==
    /\ nav.h_poseReadFailed
    /\ nav.h_tickStart = NAVIGATING
    /\ ~nav.exc
    /\ TSentVelCmd_isValid(nav.m_lastSentVelCmd)

(* the calls of the last entry point that report a failure of the sensors
   or of the robot interface *)
FailedCalls(s) ==
    {i \in DOMAIN s.calls :
        /\ s.calls[i].ev \in {"senseObstacles", "changeSpeeds", "changeSpeedsNOP"}
        /\ ~s.calls[i].arg.ok}

(* C12: in a reactive tick, when senseObstacles(), changeSpeeds() or
   changeSpeedsNOP() fails, the emergency stop is the next and the last call
   of the tick and the state is NAV_ERROR; after a sensing failure no
   candidate is evaluated, the optimiser is not run and no velocity command
   is sent; after a failed send the record of the last sent command is the
   one the tick started with (the cleared one when the tick started a new
   navigation). *)
C12_FailureEndsTick ==
    [][\A i \in FailedCalls(nav') :
          /\ Len(nav'.calls) = i + 1
          /\ nav'.calls[i + 1].ev = "stopEmergency"
          /\ nav'.m_navigationState = NAV_ERROR
          /\ nav'.calls[i].ev = "senseObstacles" =>
                /\ ~Called(nav', "holonomicNavigate")
                /\ ~Called(nav', "decide")
                /\ ~SentVelCmd(nav')
          /\ nav'.calls[i].ev # "senseObstacles" =>
                nav'.m_lastSentVelCmd =
                    (IF Called(nav', "startWatchdog")
                     THEN TSentVelCmd_reset
                     ELSE nav.m_lastSentVelCmd)]_vars

(* changeSpeeds() failed in a navigation that had already sent a command *)
C12_Witness ==
    /\ \E i \in FailedCalls(nav) : nav.calls[i].ev = "changeSpeeds"
    /\ TSentVelCmd_isValid(nav.m_lastSentVelCmd)
    /\ nav.m_navigationState = NAV_ERROR

-----------------------------------------------------------------------------
(* Properties of the reactive tick *)

(* the successful changeSpeeds() calls of the last entry point *)
SentCommands(s) ==
    {i \in DOMAIN s.calls :
        s.calls[i].ev = "changeSpeeds" /\ s.calls[i].arg.ok}

(* C13: after a successful changeSpeeds() the record of the last sent command
   holds the PTG of the command, the index of its direction, the index of
   the TP-target of that PTG, the normalised collision-free distance of that
   PTG in that direction, the speed scale of the command, the pose and
   velocity that this tick works with and the time of the tick. *)
C13_SentVelCmdIsTheCommand ==
    [][now' = now =>
         \A i \in SentCommands(nav') :
            LET cmd  == nav'.calls[i].arg.cmd
                last == nav'.m_lastSentVelCmd
                ipf  == nav'.m_infoPerPTG[cmd.ptg]
            IN  /\ last.ptg_index = cmd.ptg
                /\ last.ptg_alpha_index = cmd.k
                /\ last.tp_target_k = ipf.target_k
                /\ last.colfreedist_move_k = ipf.TP_Obstacles[cmd.k + 1]
                /\ last.speed_scale = cmd.scale
                /\ last.poseVel = nav'.m_curPoseVel
                /\ last.tim_send_cmd_vel = now]_vars

(* a command towards an obstacle at reduced speed while the target lies in
   the other sector, sent by a moving robot *)
C13_Witness ==
    \E i \in SentCommands(nav) :
        /\ nav.calls[i].arg.cmd.k # nav.m_lastSentVelCmd.tp_target_k
        /\ nav.m_lastSentVelCmd.poseVel.vel > 0
        /\ nav.m_lastSentVelCmd.tim_send_cmd_vel > 1

(* the answers of the optimiser in the last entry point *)
Decisions(s) == {i \in DOMAIN s.calls : s.calls[i].ev = "decide"}

(* C14: a velocity command, new or continued, is issued only for the
   candidate that the optimiser chose, and the speed of that candidate is
   not negative: changeSpeedsNOP() for the NOP candidate, changeSpeeds() for
   a regular one. *)
C14_IssuedCandidateIsValid ==
    \A i \in DOMAIN nav.calls :
        nav.calls[i].ev \in VelCmdNames =>
            \E j \in Decisions(nav) :
                /\ j < i
                /\ nav.calls[j].arg.best >= 0
                /\ nav.calls[j].arg.speed.num >= 0
                /\ (nav.calls[i].ev = "changeSpeedsNOP") =
                       (nav.calls[j].arg.best = nPTGs)

(* a command at reduced speed for a regular candidate in a tick whose NOP
   candidate was not feasible *)
C14_Witness ==
    /\ SentCommands(nav) # {}
    /\ \E j \in Decisions(nav) :
          /\ nav.calls[j].arg.best \in 0..(nPTGs - 1)
          /\ nav.calls[j].arg.speed.num > 0
          /\ nav.calls[j].arg.speed.num < nav.calls[j].arg.speed.den
    /\ ~nav.m_infoPerPTG[nPTGs].valid_TP

(* C17: changeSpeedsNOP() is issued in a tick only if the tick found a valid
   record of the last sent command and did not clear it, the target is the
   one of the previous tick, the PTG of that command supports NOP and the
   time since that command was sent is below maxTimeInVelCmdNOP. *)
C17_NOPOnlyWhenAllowed ==
    [][(now' = now /\ Called(nav', "changeSpeedsNOP")) =>
          /\ TSentVelCmd_isValid(nav.m_lastSentVelCmd)
          /\ ~Called(nav', "startWatchdog")
          /\ nav.m_navigationParams[1].target = nav.m_lastTarget
          /\ supportVelCmdNOP
          /\ now - nav.m_lastSentVelCmd.tim_send_cmd_vel < maxTimeInVelCmdNOP]_vars

(* the last command is continued one time step after it was sent *)
C17_Witness ==
    /\ Called(nav, "changeSpeedsNOP")
    /\ nav.m_navigationState = NAVIGATING
    /\ TSentVelCmd_isValid(nav.m_lastSentVelCmd)
    /\ nav.m_infoPerPTG_timestamp = nav.m_lastSentVelCmd.tim_send_cmd_vel + 1

(* C18: in a tick where the optimiser chooses the NOP candidate, index nPTGs,
   the robot interface receives changeSpeedsNOP() and no changeSpeeds(), and
   the record of the last sent command is the one the tick started with. *)
C18_NOPKeepsSentVelCmd ==
    [][(now' = now /\ \E j \in Decisions(nav') : nav'.calls[j].arg.best = nPTGs) =>
          /\ CountCalls(nav', "changeSpeedsNOP") = 1
          /\ ~Called(nav', "changeSpeeds")
          /\ nav'.m_lastSentVelCmd = nav.m_lastSentVelCmd]_vars

(* the continuation of a command that was sent at reduced speed in an
   earlier tick *)
C18_Witness ==
    /\ \E j \in Decisions(nav) : nav.calls[j].arg.best = nPTGs
    /\ \E i \in DOMAIN nav.calls :
          nav.calls[i].ev = "changeSpeedsNOP" /\ nav.calls[i].arg.ok
    /\ nav.m_lastSentVelCmd.tim_send_cmd_vel < nav.m_infoPerPTG_timestamp
    /\ nav.m_lastSentVelCmd.speed_scale.num < nav.m_lastSentVelCmd.speed_scale.den

(* the answers of the holonomic method in the last entry point *)
HolonomicAnswers(s) ==
    {i \in DOMAIN s.calls : s.calls[i].ev = "holonomicNavigate"}

(* the candidates that the optimiser was given in the last entry point *)
CandidatesOf(s) ==
    LET j == CHOOSE j \in Decisions(s) : TRUE
    IN  s.calls[j].arg.candidate_movs

(* the normalised free distance of PTG ptg in the direction of its answer *)
FreeDistance(s, a) ==
    s.m_infoPerPTG[a.ptg].TP_Obstacles[alpha2index(a.desiredDirection) + 1]

(* 0 up to start, 1 from end on, linear in between *)
Ramp(start, end, free) ==
    IF free <= start THEN Rat(0, 1)
    ELSE IF free >= end THEN Rat(1, 1)
    ELSE Rat(free - start, end - start)

RampOf(s, free) ==
    Ramp(s.params_abstract_ptg_navigator.secure_distance_start,
         s.params_abstract_ptg_navigator.secure_distance_end, free)

(* C20 as stated: the speed of every regular candidate is the speed of the
   holonomic method multiplied by the ramp of the normalised free distance
   in the chosen direction. *)
C20_SpeedIsRampOfFreeDistance ==
    \A i \in HolonomicAnswers(nav) :
        Decisions(nav) # {} =>
            LET a == nav.calls[i].arg
            IN  CandidatesOf(nav)[a.ptg].speed =
                    RatMul(Rat(a.desiredSpeed, 100),
                           RampOf(nav, FreeDistance(nav, a)))

(* the free distance that is left after the time a NOP continuation may
   last at the current speed, never taken below 0.90 by the look-ahead *)
LookAhead(s, free) ==
    Min2(free, Max2(NOP_SLOWDOWN_FLOOR,
                    free - s.m_curPoseVel.vel * maxTimeInVelCmdNOP))

(* C20, amended: for a PTG that supports NOP the ramp is applied to the
   free distance after the look-ahead of the NOP iterations; a candidate
   heading into a free distance of at most secure_distance_start has
   speed 0. *)
C20_SpeedIsRampAfterLookAhead ==
    \A i \in HolonomicAnswers(nav) :
        Decisions(nav) # {} =>
            LET a    == nav.calls[i].arg
                free == FreeDistance(nav, a)
                cm   == CandidatesOf(nav)[a.ptg]
            IN  /\ cm.speed =
                       RatMul(Rat(a.desiredSpeed, 100),
                              RampOf(nav, IF supportVelCmdNOP
                                          THEN LookAhead(nav, free) ELSE free))
                /\ free <= nav.params_abstract_ptg_navigator.secure_distance_start
                       => cm.speed.num = 0

(* a moving robot with nothing in its way and secure_distance_end above
   0.90: the candidate is slowed down *)
C20_Witness ==
    \E i \in HolonomicAnswers(nav) :
        /\ Decisions(nav) # {}
        /\ nav.m_curPoseVel.vel > 0
        /\ FreeDistance(nav, nav.calls[i].arg) = 100
        /\ nav.calls[i].arg.desiredSpeed = 100
        /\ CandidatesOf(nav)[nav.calls[i].arg.ptg].speed = Rat(17, 18)

-----------------------------------------------------------------------------
(* Properties of the waypoint sequencer *)

Waypoints(s) == s.m_waypoint_nav_status.waypoints

(* waypoint i (from 1) is marked reached although the robot is not within
   its allowed distance and no single-target navigation reached it: it was
   skipped by the look-ahead *)
ReachedBySkipping(s, i) ==
    /\ Waypoints(s)[i].reached
    /\ ~s.m_lastNavTargetReached
    /\ Abs(Waypoints(s)[i].target - s.m_curPoseVel.pose) >=
           Waypoints(s)[i].allowed_distance

(* C15: after any tick every waypoint marked reached by skipping has
   allow_skip = true, whatever max_distance_to_allow_skip_waypoint and the
   answers of the reachability query. *)
C15_SkipRespectsAllowSkip ==
    \A i \in DOMAIN Waypoints(nav) :
        ReachedBySkipping(nav, i) => Waypoints(nav)[i].allow_skip

(* C16: three waypoints whose first two may be skipped, every waypoint
   reachable in every tick, min_timesteps_confirm_skip_waypoints = 2, no
   limit on the distance and the robot out of the allowed distance of every
   waypoint: after the third tick that follows navigateWaypoints() the
   current goal is the third waypoint and the first two are marked reached,
   which the sequencer does when it sends their waypoint-reached events. *)
C16_ThirdGoalAfterThreeTicks ==
    (/\ Len(Waypoints(nav)) = 3
     /\ Waypoints(nav)[1].allow_skip
     /\ Waypoints(nav)[2].allow_skip
     /\ nav.params_waypoints_navigator.min_timesteps_confirm_skip_waypoints = 2
     /\ nav.params_waypoints_navigator.max_distance_to_allow_skip_waypoint = -1
     /\ nav.h_alwaysReachable
     /\ nav.h_ticks = 3)
    => /\ nav.m_waypoint_nav_status.waypoint_index_current_goal = 2
       /\ Waypoints(nav)[1].reached
       /\ Waypoints(nav)[2].reached

-----------------------------------------------------------------------------
(* Properties of navigate() *)

(* C19: when navigate() returns, a target given as relative is stored as
   the composition of the current pose of the robot with it, that is, the
   relative target rotated by the heading of the robot and translated to its
   position, with the relative flag cleared; a target given as absolute is
   stored as it was given; the state is NAVIGATING.  The robot at
   (2, 3, pi/2) and the relative target (1, 0, 0) give (2, 4, pi/2). *)
C19_RelativeTargetIsComposed ==
    (nav.h_requests > 0 /\ ~nav.exc) =>
        LET req    == nav.h_request
            stored == nav.m_navigationParams[1]
            pose   == nav.m_curPoseVel.pose
            c      == QuarterCos(PosePhi(pose))
            sn     == QuarterSin(PosePhi(pose))
        IN  /\ nav.m_navigationState = NAVIGATING
            /\ ~stored.targetIsRelative
            /\ ~req.targetIsRelative => stored.target = req.target
            /\ req.targetIsRelative =>
                  /\ PoseX(stored.target) =
                         PoseX(pose) + c * PoseX(req.target) - sn * PoseY(req.target)
                  /\ PoseY(stored.target) =
                         PoseY(pose) + sn * PoseX(req.target) + c * PoseY(req.target)
                  /\ PosePhi(stored.target) = PosePhi(pose) + PosePhi(req.target)
            /\ (req.targetIsRelative /\ pose = TPose2D(2, 3, 1)
                    /\ req.target = TPose2D(1, 0, 0)) =>
                  stored.target = TPose2D(2, 4, 1)

(* the example: the robot at (2, 3, pi/2) is given the relative target
   (1, 0, 0) *)
C19_Witness ==
    /\ nav.h_requests > 0
    /\ ~nav.exc
    /\ nav.h_request.targetIsRelative
    /\ nav.h_request.target = TPose2D(1, 0, 0)
    /\ nav.m_curPoseVel.pose = TPose2D(2, 3, 1)
    /\ nav.m_navigationParams[1].target = TPose2D(2, 4, 1)

-----------------------------------------------------------------------------
(* Properties of the security scaling *)

VelScales(s) == {i \in DOMAIN s.calls : s.calls[i].ev = "velScale"}

(* C21, as stated: the free distance that the ramp is applied to is the
   TP-obstacle in the chosen direction less |v| * maxTimeInVelCmdNOP,
   whatever the obstacle distance. *)
C21_FreeDistanceLessLookAhead ==
    \A i \in VelScales(nav) :
        supportVelCmdNOP =>
            nav.calls[i].arg.obsFreeNormalizedDistance =
                nav.calls[i].arg.TP_Obstacle
                    - Abs(nav.m_curPoseVel.vel) * maxTimeInVelCmdNOP

(* C21: the free distance that the ramp is applied to is the TP-obstacle in
   the chosen direction less |v| * maxTimeInVelCmdNOP, but not less than
   0.90, and never more than the TP-obstacle itself: an obstacle nearer than
   0.90 is taken at its distance. *)
C21_FreeDistanceLessLookAheadAbove90 ==
    \A i \in VelScales(nav) :
        LET obstacle == nav.calls[i].arg.TP_Obstacle
            free     == nav.calls[i].arg.obsFreeNormalizedDistance
            reduced  == obstacle - Abs(nav.m_curPoseVel.vel) * maxTimeInVelCmdNOP
        IN  supportVelCmdNOP =>
               /\ reduced >= NOP_SLOWDOWN_FLOOR => free = reduced
               /\ (reduced < NOP_SLOWDOWN_FLOOR /\ obstacle >= NOP_SLOWDOWN_FLOOR)
                      => free = NOP_SLOWDOWN_FLOOR
               /\ obstacle < NOP_SLOWDOWN_FLOOR => free = obstacle

(* a moving robot: one candidate with a free way, reduced by the look-ahead,
   and one with a near obstacle, taken at its distance *)
C21_Witness ==
    /\ supportVelCmdNOP
    /\ nav.m_curPoseVel.vel > 0
    /\ \E i \in VelScales(nav) :
          /\ nav.calls[i].arg.TP_Obstacle < NOP_SLOWDOWN_FLOOR
          /\ nav.calls[i].arg.obsFreeNormalizedDistance = nav.calls[i].arg.TP_Obstacle
          /\ Called(nav, "changeSpeeds")

-----------------------------------------------------------------------------
(* Properties of the reachability query *)

ReachabilityQueries(s) ==
    {i \in DOMAIN s.calls : s.calls[i].ev = "impl_waypoint_is_reachable"}

(* a PTG gives a free path to the point: the point is in its domain at
   sector k and distance d, and its TP-obstacle of sector k, as the last
   tick left it, is farther than 1.01 d *)
FreePathByPTG(s, i, wp) ==
    /\ wp[i].is_into_domain
    /\ (wp[i].wp_k + 1) \in DOMAIN s.m_infoPerPTG[i].TP_Obstacles
    /\ 100 * s.m_infoPerPTG[i].TP_Obstacles[wp[i].wp_k + 1] > 101 * wp[i].wp_norm_d

(* C22: the reachability query answers true if and only if the per-PTG
   information is at most 500 ms old and some PTG has the point in its
   domain at a sector k and a distance d with TP_Obstacles[k] > 1.01 d; it
   answers false as long as no reactive tick has produced per-PTG
   information. *)
C22_ReachableIffFreshFreePath ==
    \A q \in ReachabilityQueries(nav) :
        LET a == nav.calls[q].arg
        IN  /\ a.result <=>
                  /\ nav.m_infoPerPTG_timestamp # INVALID_TIMESTAMP
                  /\ a.t - nav.m_infoPerPTG_timestamp <= MAX_INFO_AGE
                  /\ \E i \in 0..(nPTGs - 1) : FreePathByPTG(nav, i, a.wp)
            /\ nav.m_infoPerPTG_timestamp = INVALID_TIMESTAMP => ~a.result

(* the query answers true for a point just nearer than an obstacle, asked
   when the information is exactly 500 ms old *)
C22_Witness ==
    \E q \in ReachabilityQueries(nav) :
        /\ nav.calls[q].arg.result
        /\ nav.calls[q].arg.t - nav.m_infoPerPTG_timestamp = MAX_INFO_AGE
        /\ \E i \in 0..(nPTGs - 1) :
              /\ nav.calls[q].arg.wp[i].wp_norm_d = 3
              /\ nav.m_infoPerPTG[i].TP_Obstacles[nav.calls[q].arg.wp[i].wp_k + 1] = 4

-----------------------------------------------------------------------------
(* Properties of the locking *)

(* the data of the navigator that thread th reads or writes in the region
   it is in: the navigation state, the pose/velocity record, the pose
   history, the waypoint sequence *)
RegionData(th) ==
    LET pc == threads.pc[th]
        pose == {"m_curPoseVel", "m_latestPoses"}
    IN  CASE pc = "navigate" ->
                 {"m_navigationState"}
                     \cup (IF threads.params[th].targetIsRelative THEN pose ELSE {})
          [] pc \in {"navigateWaypoints", "cancel_waypoints"} ->
                 {"m_waypoint_nav_status"}
          [] pc \in StateCalls \cup {"cancel"} -> {"m_navigationState"}
          [] pc = "tick_waypoints" ->
                 {"m_waypoint_nav_status"}
                     \cup (IF nav.m_waypoint_nav_status.waypoints = <<>>
                              \/ nav.m_waypoint_nav_status.final_goal_reached
                           THEN {} ELSE pose)
          [] pc = "tick" ->
                 {"m_navigationState"}
                     \cup (IF nav.m_navigationState = NAVIGATING THEN pose ELSE {})
          [] OTHER -> {}

(* C23: the entry points called from different threads are serialised, so
   that the pose/velocity record, the pose history, the navigation state and
   the waypoint sequence are never read or written by two calls at the same
   time. *)
C23_NoConcurrentAccess ==
    \A a, b \in Threads :
        a # b => RegionData(a) \cap RegionData(b) = {}

-----------------------------------------------------------------------------
(* Properties of the pose history *)

(* the timestamps of the history increase strictly *)
StrictlyIncreasing(path) ==
    \A i, j \in DOMAIN path : i < j => path[i].t < path[j].t

(* no entry is more than PREVIOUS_POSES_MAX_AGE older than the newest one *)
WithinMaxAge(path) ==
    \A i \in DOMAIN path : path[Len(path)].t - path[i].t <= PREVIOUS_POSES_MAX_AGE

(* C24, as stated: the timestamps of the pose history increase strictly, no
   entry is more than 20 s older than the newest one, and once a pose was
   read successfully the history holds at least one entry at the end of
   every call and tick. *)
C24_PoseHistoryNeverEmptyAgain ==
    /\ StrictlyIncreasing(nav.m_latestPoses)
    /\ WithinMaxAge(nav.m_latestPoses)
    /\ nav.m_curPoseVel.timestamp # INVALID_TIMESTAMP => nav.m_latestPoses # <<>>

(* C24: the timestamps of the pose history increase strictly, no entry is
   more than 20 s older than the newest one, and once a pose was read
   successfully since the last start of a navigation the history holds at
   least one entry at the end of every call and tick; the tick that starts a
   navigation clears the history, which stays empty if the pose read of
   that tick fails. *)
C24_PoseHistoryKeptWithinNavigation ==
    /\ StrictlyIncreasing(nav.m_latestPoses)
    /\ WithinMaxAge(nav.m_latestPoses)
    /\ nav.m_last_curPoseVelUpdate_robot_time >= 0 => nav.m_latestPoses # <<>>

(* a history of three entries that spans exactly 20 s, after a read that
   purged an older entry would have left it so *)
C24_Witness ==
    /\ Len(nav.m_latestPoses) = 3
    /\ nav.m_latestPoses[3].t - nav.m_latestPoses[1].t = PREVIOUS_POSES_MAX_AGE
    /\ nav.m_latestPoses[1].t > 1
    /\ Called(nav, "getCurrentPoseAndSpeeds")

-----------------------------------------------------------------------------
(* Properties of the configuration *)

(* C25: as long as no configuration was loaded successfully, the navigator
   is never in the NAVIGATING state, whatever requests and ticks are made. *)
C25_NoNavigatingWithoutConfig ==
    ~nav.m_init_done => nav.m_navigationState # NAVIGATING

-----------------------------------------------------------------------------
(* Properties of the TP-obstacles *)

(* the entries of m_infoPerPTG of the PTGs and of the NOP candidate that
   the last reactive tick found valid *)
ValidPTGs(s) == {i \in DOMAIN s.m_infoPerPTG : s.m_infoPerPTG[i].valid_TP}

(* C26: the TP-obstacles of every valid PTG candidate have one entry for
   each path of the PTG and each entry is between 0 and 1 (0 and 100
   hundredths) after the normalisation by the reference distance, the
   projection giving distances between 0 and the reference distance. *)
C26_TPObstaclesNormalised ==
    \A i \in ValidPTGs(nav) :
        /\ Len(nav.m_infoPerPTG[i].TP_Obstacles) = getPathCount
        /\ \A k \in 1..getPathCount :
              /\ nav.m_infoPerPTG[i].TP_Obstacles[k] >= 0
              /\ nav.m_infoPerPTG[i].TP_Obstacles[k] <= 100

(* a tick that evaluated a PTG with one sector free up to the reference
   distance and an obstacle in the other *)
C26_Witness ==
    /\ Called(nav, "senseObstacles")
    /\ \E i \in ValidPTGs(nav) :
          /\ i < nPTGs
          /\ \E k \in 1..getPathCount : nav.m_infoPerPTG[i].TP_Obstacles[k] = 100
          /\ \E k \in 1..getPathCount :
                nav.m_infoPerPTG[i].TP_Obstacles[k] = (16 * 100) \div ref_distance

-----------------------------------------------------------------------------
(* Properties of the delays model *)

RelTargets(s) == {i \in DOMAIN s.calls : s.calls[i].ev = "relTarget"}

(* C27: with use_delays_model false, in every tick the relative poses
   relPoseSense and relPoseVelCmd and the offset
   rel_pose_PTG_origin_wrt_sense are zero, and the relative target is the
   target less the current pose of the robot. *)
C27_NoDelaysModelNoOffsets ==
    \A i \in RelTargets(nav) :
        ~nav.params_abstract_ptg_navigator.use_delays_model =>
            LET a == nav.calls[i].arg
                target == nav.m_navigationParams[1].target
                pose == nav.m_curPoseVel.pose
            IN  /\ a.relPoseSense = TPose2D(0, 0, 0)
                /\ a.relPoseVelCmd = TPose2D(0, 0, 0)
                /\ a.rel_pose_PTG_origin_wrt_sense = TPose2D(0, 0, 0)
                /\ PoseX(a.relTarget) = PoseX(target) - PoseX(pose)
                /\ PoseY(a.relTarget) = 0
                /\ PosePhi(a.relTarget) = 0

(* a tick of a moving robot with the delays model off and time offsets that
   are not zero *)
C27_Witness ==
    /\ ~nav.params_abstract_ptg_navigator.use_delays_model
    /\ nav.m_curPoseVel.vel > 0
    /\ nav.m_curPoseVel.pose > 0
    /\ \E i \in RelTargets(nav) :
          /\ nav.calls[i].arg.timoff_pose2sense # 0
          /\ nav.calls[i].arg.timoff_pose2VelCmd # 0
          /\ nav.calls[i].arg.relTarget = 1

-----------------------------------------------------------------------------
(* Properties of the start of a navigation *)

(* the last entry point was a request that took the state from IDLE to
   NAVIGATING, and this step is the tick that follows it and runs the
   NAVIGATING case *)
FirstTickOfNavigation ==
    /\ <<IDLE, NAVIGATING>> \in nav.h_edges
    /\ nav.h_tickStart = "none"
    /\ TickFrom(NAVIGATING)
    /\ nav'.m_lastNavigationState = NAVIGATING

(* C28: the tick in NAVIGATING that follows a change of the state from IDLE
   to NAVIGATING starts the watchdog, clears the pose history, calls the
   start-of-navigation hook and emits exactly one navigation-start event,
   whatever came before the request: a cancel(), an arrival or a
   resetNavError() with no tick in between included. *)
C28_EveryNavigationIsStarted ==
    [][FirstTickOfNavigation =>
          /\ Called(nav', "startWatchdog")
          /\ Called(nav', "onStartNewNavigation")
          /\ CountCalls(nav', "navStart") = 1
          /\ \A i \in DOMAIN nav'.m_latestPoses :
                nav'.m_latestPoses[i].t = now]_vars

(* C29: the record of the last sent command is invalid when a navigation
   starts, so that changeSpeedsNOP() is issued only after a changeSpeeds()
   of the same navigation: never as the first command of a navigation
   started from IDLE. *)
C29_NOPOnlyAfterCommandOfSameNavigation ==
    Called(nav, "changeSpeedsNOP") => nav.h_cmdSent

-----------------------------------------------------------------------------
(* Properties of the stop command *)

(* in the last entry point the optimiser selected no candidate, or a
   regular candidate whose speed is 0 *)
StopDecided(s) ==
    \E j \in Decisions(s) :
        \/ s.calls[j].arg.best < 0
        \/ /\ s.calls[j].arg.best < nPTGs
           /\ s.calls[j].arg.speed.num = 0

(* C30: a tick in which the optimiser selects no candidate, or a candidate
   of speed 0, stops the robot with an emergency stop and sends no
   velocity command, leaves the record of the last sent command invalid and
   the state NAVIGATING; the tick that follows does not continue a command
   with changeSpeedsNOP(). *)
C30_StopResetsSentVelCmd ==
    [][now' = now =>
          /\ StopDecided(nav') =>
                /\ Called(nav', "stopEmergency")
                /\ ~SentVelCmd(nav')
                /\ ~TSentVelCmd_isValid(nav'.m_lastSentVelCmd)
                /\ nav'.m_navigationState = NAVIGATING
          /\ (StopDecided(nav) /\ nav'.h_tickStart # "none") =>
                /\ ~Called(nav', "changeSpeedsNOP")
                /\ \A j \in Decisions(nav') : nav'.calls[j].arg.best # nPTGs]_vars

(* a candidate of speed 0 selected in a navigation that had sent a command
   before *)
C30_Witness ==
    /\ \E j \in Decisions(nav) :
          /\ nav.calls[j].arg.best \in 0..(nPTGs - 1)
          /\ nav.calls[j].arg.speed.num = 0
    /\ nav.h_cmdSent
    /\ nav.m_navigationState = NAVIGATING

-----------------------------------------------------------------------------
(* Properties of the waypoint sequencer *)

(* the step is a navigationStep() *)
IsTick == now' = now /\ nav'.h_tickStart # "none"

CallsOf(s, name) == {i \in DOMAIN s.calls : s.calls[i].ev = name}

(* C31: a tick issues a single-target navigate() request and a
   new-waypoint-target event if and only if the index of the current goal
   changed in it; the event carries the new index, the target of the
   request is the new goal waypoint with the allowed distance of that
   waypoint, and targetIsIntermediaryWaypoint is true exactly when the goal
   is not the last waypoint. *)
C31_RequestIffGoalChanged ==
    [][IsTick =>
          LET wps == nav'.m_waypoint_nav_status
              cur == wps.waypoint_index_current_goal
              changed == cur # nav.m_waypoint_nav_status.waypoint_index_current_goal
          IN  /\ Cardinality(CallsOf(nav', "newWpTarget")) = (IF changed THEN 1 ELSE 0)
              /\ Cardinality(CallsOf(nav', "navigate")) = (IF changed THEN 1 ELSE 0)
              /\ changed =>
                    /\ \A i \in CallsOf(nav', "newWpTarget") : nav'.calls[i].arg = cur
                    /\ \A i \in CallsOf(nav', "navigate") :
                          LET cmd == nav'.calls[i].arg
                          IN  /\ cmd.target = wps.waypoints[cur + 1].target
                              /\ cmd.targetAllowedDistance =
                                    wps.waypoints[cur + 1].allowed_distance
                              /\ ~cmd.targetIsRelative
                              /\ cmd.targetIsIntermediaryWaypoint =
                                    (cur # Len(wps.waypoints) - 1)
                              /\ nav'.m_navigationParams = <<cmd>>]_vars

(* a request for a waypoint that is not the last one, made after the first
   waypoint was reached *)
C31_Witness ==
    /\ \E i \in CallsOf(nav, "navigate") :
          nav.calls[i].arg.targetIsIntermediaryWaypoint
    /\ Called(nav, "wpReached")
    /\ nav.m_waypoint_nav_status.waypoint_index_current_goal > 0

(* the waypoint part of this tick ran with a goal set, and the goal is
   within its allowed distance of the segment from the pose of this tick to
   the pose of the tick before, or flagged as reached by the state machine *)
GoalReachedInTick ==
    LET wps == nav.m_waypoint_nav_status
        cur == wps.waypoint_index_current_goal
        p1 == nav'.m_waypoint_nav_status.last_robot_pose
        p2 == IF wps.last_robot_pose = INVALID_NUM THEN p1 ELSE wps.last_robot_pose
    IN  /\ IsTick
        /\ ~nav'.exc
        /\ wps.waypoints # <<>>
        /\ ~wps.final_goal_reached
        /\ cur >= 0
        /\ \/ SegmentDistance(p1, p2, wps.waypoints[cur + 1].target)
                 < wps.waypoints[cur + 1].allowed_distance
           \/ nav.m_lastNavTargetReached

(* C32: a tick that finds the current goal within its allowed distance of
   the last movement segment of the robot, or flagged as reached by the
   state machine, marks the goal reached and emits the waypoint-reached
   event with its index first; the index advances by one, and further only
   by the waypoints that the look-ahead skips and reports, or
   final-goal-reached is set if the goal was the last waypoint.  With
   final-goal-reached set a tick leaves the sequence as it is and emits no
   waypoint event and no request. *)
C32_GoalReachedAdvances ==
    [][/\ GoalReachedInTick =>
             LET wps == nav.m_waypoint_nav_status
                 cur == wps.waypoint_index_current_goal
                 new == nav'.m_waypoint_nav_status
                 events == CallsOf(nav', "wpReached")
             IN  /\ new.waypoints[cur + 1].reached
                 /\ events # {}
                 /\ \A i \in events :
                       (\A j \in events : i <= j) => nav'.calls[i].arg = cur
                 /\ cur < Len(wps.waypoints) - 1 =>
                       /\ new.waypoint_index_current_goal = cur + Cardinality(events)
                       /\ ~new.final_goal_reached
                 /\ cur = Len(wps.waypoints) - 1 =>
                       /\ new.waypoint_index_current_goal = cur
                       /\ new.final_goal_reached
                       /\ Cardinality(events) = 1
       /\ (IsTick /\ nav.m_waypoint_nav_status.final_goal_reached) =>
             /\ nav'.m_waypoint_nav_status = nav.m_waypoint_nav_status
             /\ CallsOf(nav', "wpReached") = {}
             /\ CallsOf(nav', "newWpTarget") = {}
             /\ CallsOf(nav', "navigate") = {}]_vars

(* the first of two waypoints was reached in the last tick, with the robot
   away from the second *)
C32_Witness ==
    /\ Len(nav.m_waypoint_nav_status.waypoints) = 2
    /\ nav.m_waypoint_nav_status.waypoint_index_current_goal = 1
    /\ \E i \in CallsOf(nav, "wpReached") : nav.calls[i].arg = 0
    /\ nav.m_waypoint_nav_status.waypoints[1].reached
    /\ ~nav.m_waypoint_nav_status.final_goal_reached
    /\ nav.m_curPoseVel.pose = 0

-----------------------------------------------------------------------------
(* Properties of the pose updates *)

(* the last successful pose read is less than 20 ms old *)
PoseReadIsRecent ==
    /\ nav.m_curPoseVel.timestamp # INVALID_TIMESTAMP
    /\ now - nav.m_curPoseVel.timestamp < MIN_TIME_BETWEEN_POSE_UPDATES

(* C33: an entry point that runs less than 20 ms after the last successful
   pose read does not query the robot and leaves the pose and velocity
   record and the pose history as they are, and a tick queries the robot
   at most once, for its waypoint part and its state-machine part
   together. *)
C33_RecentPoseIsReused ==
    [][now' = now =>
          /\ PoseReadIsRecent =>
                /\ ~Called(nav', "getCurrentPoseAndSpeeds")
                /\ nav'.m_curPoseVel = nav.m_curPoseVel
                /\ nav'.m_latestPoses = nav.m_latestPoses
          /\ IsTick => CountCalls(nav', "getCurrentPoseAndSpeeds") <= 1]_vars

(* the time of the last successful pose read is still recorded, and is less
   than 20 ms ago *)
LastReadIsRemembered ==
    /\ nav.m_last_curPoseVelUpdate_robot_time >= 0
    /\ now - nav.m_last_curPoseVelUpdate_robot_time < MIN_TIME_BETWEEN_POSE_UPDATES

(* C33, amended: the same as long as the time of the last read is
   remembered.  The start-of-navigation hook forgets it: the state-machine
   part of the tick that starts a navigation queries the robot again after
   the hook, and if that read fails so does the next entry point. *)
C33_RecentPoseIsReusedUnlessStarting ==
    [][now' = now =>
          /\ (LastReadIsRemembered /\ ~Called(nav', "onStartNewNavigation")) =>
                /\ ~Called(nav', "getCurrentPoseAndSpeeds")
                /\ nav'.m_curPoseVel = nav.m_curPoseVel
                /\ nav'.m_latestPoses = nav.m_latestPoses
          /\ (IsTick /\ ~Called(nav', "onStartNewNavigation")) =>
                CountCalls(nav', "getCurrentPoseAndSpeeds") <= 1
          /\ (IsTick /\ Called(nav', "onStartNewNavigation")) =>
                /\ Called(nav', "getCurrentPoseAndSpeeds")
                /\ \A i \in CallsOf(nav', "onStartNewNavigation") :
                      \E j \in CallsOf(nav', "getCurrentPoseAndSpeeds") : j > i]_vars

(* a tick with a pending waypoint sequence that sent no request, ran in
   NAVIGATING less than 20 ms after the last pose read and did not query
   the robot *)
C33_Witness ==
    /\ nav.h_tickStart = NAVIGATING
    /\ nav.m_navigationState = NAVIGATING
    /\ nav.m_waypoint_nav_status.waypoints # <<>>
    /\ ~nav.m_waypoint_nav_status.final_goal_reached
    /\ ~Called(nav, "getCurrentPoseAndSpeeds")
    /\ ~Called(nav, "onStartNewNavigation")
    /\ now - nav.m_curPoseVel.timestamp < MIN_TIME_BETWEEN_POSE_UPDATES
    /\ nav.m_curPoseVel.timestamp > 1

-----------------------------------------------------------------------------
(* Properties of the scores of the NOP candidate *)

Scores(s) == {i \in DOMAIN s.calls : s.calls[i].ev = "scores"}

(* the robot is out of the domain of the PTG of the last command, or
   further from the pose predicted on its path than the threshold *)
OffThePath(q) ==
    \/ ~q.inverseMap.is_exact
    \/ q.predicted2real_dist > DEFAULT_MAX_DISTANCE_PREDICTED_ACTUAL_PATH

(* C34: whenever the NOP candidate is evaluated with the robot out of the
   domain of the previous PTG, or with a distance between the predicted and
   the actual pose above max_distance_predicted_actual_path, the candidate
   is marked invalid (speed = -0.01), in the time-based and in the
   inverse-mapping prediction mode. *)
C34_OffThePathInvalidates ==
    \A i \in Scores(nav) :
        OffThePath(nav.calls[i].arg.in) =>
            nav.calls[i].arg.out.speed = INVALID_SPEED

(* C34, amended: in the inverse-mapping mode the candidate is marked invalid
   exactly when the robot is out of the domain, when no path step is found
   for its distance or when the mismatch is above the threshold; in the
   time-based mode the candidate is never marked invalid by the scorer. *)
C34_OffThePathInvalidatesInverseMapping ==
    \A i \in Scores(nav) :
        LET q == nav.calls[i].arg.in
            out == nav.calls[i].arg.out
        IN  IF out.is_time_based
            THEN out.speed # INVALID_SPEED
            ELSE (out.speed = INVALID_SPEED) = (OffThePath(q) \/ ~q.ok1)

(* an evaluation in the inverse-mapping mode of a robot in the domain, with
   a path step found and a mismatch above the threshold *)
C34_Witness ==
    \E i \in Scores(nav) :
        /\ ~nav.calls[i].arg.out.is_time_based
        /\ nav.calls[i].arg.in.inverseMap.is_exact
        /\ nav.calls[i].arg.in.ok1
        /\ nav.calls[i].arg.in.predicted2real_dist >
              DEFAULT_MAX_DISTANCE_PREDICTED_ACTUAL_PATH
        /\ nav.calls[i].arg.out.speed = INVALID_SPEED

(* C35: the distance cur_norm_d that the NOP scorer subtracts from a
   collision-free distance below 0.99 is normalised, a length along the
   path divided by the reference distance of the PTG, in every branch: the
   time-based prediction, the inverse mapping at a bijective point and the
   fallback to the commanded direction where the mapping is not bijective. *)
C35_TravelledDistanceIsNormalised ==
    \A i \in Scores(nav) :
        LET q == nav.calls[i].arg.in
            out == nav.calls[i].arg.out
            unmapped == out.is_time_based \/ ~out.WS_point_is_unique
            cur_norm_d == IF unmapped
                          THEN (q.getPathDist * 100) \div ref_distance
                          ELSE q.inverseMap.cur_norm_d
            obs == IF out.WS_point_is_unique
                   THEN Min2(q.in_TPObstacles[q.move_k + 1],
                             q.in_TPObstacles[out.cur_k + 1])
                   ELSE q.in_TPObstacles[q.move_k + 1]
        IN  (out.speed # INVALID_SPEED /\ obs < 99) =>
                out.colfree = obs - cur_norm_d

-----------------------------------------------------------------------------
(* Properties of the velocity commands of a tick *)

(* the state-machine part of the tick found the target within the allowed
   distance *)
ArrivalDetected(s) ==
    /\ s.h_targetDist >= 0
    /\ s.h_targetDist < s.m_navigationParams[1].targetAllowedDistance

(* the state-machine part of the tick raised the alarm of the target not
   being approached *)
StallDetected(s) == Called(s, "wayBlocked")

(* C36, as stated: changeSpeeds() or changeSpeedsNOP() is called only in a
   tick that starts in NAVIGATING and detects neither the arrival nor the
   stall; a tick that starts in IDLE, SUSPENDED or NAV_ERROR calls neither. *)
C36_VelCmdOnlyInTickFromNavigating ==
    [][(IsTick /\ SentVelCmd(nav')) =>
          /\ nav'.h_tickStart = NAVIGATING
          /\ ~ArrivalDetected(nav')
          /\ ~StallDetected(nav')]_vars

(* C36, amended: changeSpeeds() or changeSpeedsNOP() is called only in a
   tick whose state-machine part, which runs after the waypoint part and its
   navigate(), starts in NAVIGATING and detects neither the arrival nor the
   stall. *)
C36_VelCmdOnlyInStateMachineTickFromNavigating ==
    [][(IsTick /\ SentVelCmd(nav')) =>
          /\ ~nav'.exc
          /\ nav'.m_lastNavigationState = NAVIGATING
          /\ ~ArrivalDetected(nav')
          /\ ~StallDetected(nav')]_vars

(* a tick that started in NAVIGATING has sent a velocity command *)
C36_Witness ==
    /\ nav.h_tickStart = NAVIGATING
    /\ nav.m_lastNavigationState = NAVIGATING
    /\ SentVelCmd(nav)
    /\ ~ArrivalDetected(nav)

-----------------------------------------------------------------------------
(* Properties of the watchdog *)

(* C37: the calls of startWatchdog() and stopWatchdog() alternate, starting
   with a start: after any sequence of calls and ticks the watchdog is
   started and not stopped exactly when the last completed tick of the state
   machine began in NAVIGATING, and it is never started twice without a stop
   in between, nor stopped without having been started. *)
C37_WatchdogAlternates ==
    /\ nav.h_watchdog = (nav.m_lastNavigationState = NAVIGATING)
    /\ ~nav.h_watchdogMisuse

(* a tick has stopped the watchdog that an earlier tick had started *)
C37_Witness ==
    /\ Called(nav, "stopWatchdog")
    /\ ~nav.h_watchdog
    /\ nav.m_lastNavigationState # NAVIGATING

-----------------------------------------------------------------------------
(* Properties of the goal index of a waypoint sequence *)

(* the goal index is in [-1, N-1], the waypoints before it are marked
   reached, and the final goal is reported reached only with the last
   waypoint as the goal and marked reached *)
GoalIndexConsistent(wps) ==
    LET N   == Len(wps.waypoints)
        cur == wps.waypoint_index_current_goal
    IN  /\ cur \in -1..(N - 1)
        /\ \A k \in 0..(cur - 1) : wps.waypoints[k + 1].reached
        /\ wps.final_goal_reached =>
              /\ N > 0
              /\ cur = N - 1
              /\ wps.waypoints[N].reached

(* C38: during one waypoint sequence the index of the current goal never
   decreases and stays in [-1, N-1]; every waypoint before the current goal
   is marked reached, and final_goal_reached is set only when the current
   goal is the last waypoint and that waypoint is marked reached. *)
C38_GoalIndexMonotoneAndConsistent ==
    [][/\ GoalIndexConsistent(nav'.m_waypoint_nav_status)
       /\ IsTick =>
             nav'.m_waypoint_nav_status.waypoint_index_current_goal >=
                 nav.m_waypoint_nav_status.waypoint_index_current_goal]_vars

(* the last of several waypoints is reached after a waypoint was skipped *)
C38_Witness ==
    LET wps == nav.m_waypoint_nav_status
    IN  /\ Len(wps.waypoints) > 1
        /\ wps.final_goal_reached
        /\ wps.waypoint_index_current_goal = Len(wps.waypoints) - 1
        /\ \A k \in DOMAIN wps.waypoints : wps.waypoints[k].reached
        /\ \E k \in DOMAIN wps.waypoints :
              wps.waypoints[k].counter_seen_reachable > 0

-----------------------------------------------------------------------------
(* Properties of the waypoint-reached events *)

(* C39: within one waypoint sequence sendWaypointReachedEvent() is called at
   most once for each index and the indices of successive calls are strictly
   increasing, whether the waypoint was reached by distance, by the
   target-reached flag of the state machine or by skipping. *)
C39_WaypointEventsStrictlyIncreasing ==
    \A i, j \in DOMAIN nav.h_wpEvents :
        i < j => nav.h_wpEvents[i] < nav.h_wpEvents[j]

(* two waypoints were reported, the last of them in a later tick that ended
   the sequence *)
C39_Witness ==
    /\ Len(nav.h_wpEvents) >= 2
    /\ CountCalls(nav, "wpReached") = 1
    /\ nav.m_waypoint_nav_status.final_goal_reached

-----------------------------------------------------------------------------
(* Properties of the rejected requests *)

(* C40: a navigateWaypoints() request that is rejected, for an empty list
   or for a waypoint that is not valid, leaves no waypoint sequence pending:
   the stored sequence is empty after the failed call, and the ticks that
   follow neither call navigate() for it nor emit waypoint events. *)
C40_RejectedLeavesNothingPending ==
    nav.h_rejected =>
        /\ nav.m_waypoint_nav_status.waypoints = <<>>
        /\ ~Called(nav, "navigate")
        /\ ~Called(nav, "newWpTarget")
        /\ ~Called(nav, "wpReached")

====
